---- MODULE Spec2Model ----
(***************************************************************************)
(* Track-to-video matching and batch orchestration of spiny-nebula:        *)
(* the background processor (server/background-processor.ts), the batch    *)
(* search with its failed-search cache (server/routes_new.ts) and the fast *)
(* processor (unnamed/part_000).  Each processor has a specification of    *)
(* its own over the shared search backend and failedSearchCache.           *)
(***************************************************************************)
EXTENDS Integers, Sequences, FiniteSets, TLC

(* ------------------------------ bounds -------------------------------- *)
\* tracks submitted per run, over all jobs
MaxTracks == 2
\* processJobInBackground invocations alive at the same time after a resume
MaxLoops == 2
\* startProcessing calls followed per run
MaxJobs == 1
\* startProcessing calls followed when the claim is about several jobs
MaxStarts == 2
\* tracks of the job whose control calls are followed with their return values
MaxControlTracks == 1
\* entries of a finished conversion handed to a route that builds the URL
MaxResults == 52
\* tracks handed to convertPlaylist; maxTracks goes one beyond
MaxConvTracks == 3
\* BATCH_SIZE of convertPlaylist, 50 in the source
BATCH_SIZE == 2
\* maxTracksPerConversion of /convert-playlist, 50 in the source for
\* playlists of up to 100 tracks
maxTracksPerConversion == 2
\* tracks of the playlist the chained /convert-playlist calls work through
MaxChainTracks == 3
\* the batchSize /convert-playlist passes to searchForYouTubeVideos, 10 in
\* the source
RouteBatchSize == 1
\* queries of searchSingleTrack, 10 to 12 in the source
MaxQueries == 3
\* the not-found entries of such a conversion: none, or every MissPeriod-th
MaxMissPeriod == 2
\* tracks handed to one searchForYouTubeVideos call
MaxBatchTracks == 4
\* largest batchSize argument of searchForYouTubeVideos
MaxBatchSize == 2
\* tracks processFast searches at the same time (50 in the source)
CONCURRENT_BATCH_SIZE == 2

(* ------------------------- strings and tracks ------------------------- *)
\* Strings are sequences of characters so that toLowerCase and template
\* concatenation are computed rather than assumed.
LowerChar(c) ==
  CASE c = "A" -> "a"
    [] c = "X" -> "x"
    [] c = "Official" -> "official"
    [] c = "VEVO" -> "vevo"
    [] OTHER -> c

ToLowerCase(s) == [i \in DOMAIN s |-> LowerChar(s[i])]

\* Two spellings of one (artist, song) pair and one other pair.
TrackPool ==
  { [name |-> <<"x">>, artist |-> <<"A">>],
    [name |-> <<"X">>, artist |-> <<"a">>],
    [name |-> <<"y">>, artist |-> <<"b">>] }

PlaylistIds == { <<"p">> }

SeqsUpTo(S, n) == UNION { [1..k -> S] : k \in 0..n }

\* `${artist}-${song}`.toLowerCase()
CacheKeyAlt(artist, song) == artist \o <<"-">> \o song
CacheKey(artist, song) == ToLowerCase(artist \o <<"-">> \o song)

\* `${artist} ${song} official video`
SearchQuery(artist, song) ==
  artist \o <<" ">> \o song \o <<" ", "official", " ", "video">>

PoolQueries == { SearchQuery(t.artist, t.name) : t \in TrackPool }

\* the (artist, song) pair compared case-insensitively
PairOf(artist, song) == <<ToLowerCase(artist), ToLowerCase(song)>>

(* --------------------------- search backend --------------------------- *)
\* What the external search does with a query: answer with results, answer
\* with none, throw, never answer, or any of these from one query to the next.
Behaviours == {"hit", "empty", "throw", "hang", "flaky"}

\* The backend's behaviour for a query is fixed the first time the query is
\* sent and kept in searchBackend from then on.
BehaviourOf(backend, query) ==
  IF query \in DOMAIN backend THEN {backend[query]} ELSE Behaviours

\* the answers a query can get before the caller's timer fires
Responses(b) ==
  CASE b = "hit" -> {"hit"}
    [] b = "empty" -> {"empty"}
    [] b = "throw" -> {"throw"}
    [] b = "hang" -> {}
    [] OTHER -> {"hit", "empty", "throw"}

\* whether the caller's timer can fire before the answer
CanTimeOutNever(b) == FALSE
CanTimeOut(b) == b \in {"hang", "flaky"}

\* searchYouTubeAPI: results mapped to candidates; every error becomes []
searchYouTubeAPI(query, resp) ==
  IF resp = "hit"
  THEN << [videoId |-> <<"v">> \o query, title |-> query, channelTitle |-> <<"c">>] >>
  ELSE << >>

\* String.prototype.includes
Includes(text, part) ==
  \E t \in {text}, p \in {part} :
    \E i \in 0..(Len(t) - Len(p)) : SubSeq(t, i + 1, i + Len(p)) = p

\* artistLower.split(',')[0]
BeforeComma(text) ==
  SubSeq(text, 1, Len(text) - Cardinality({ i \in DOMAIN text :
                                             \E j \in 1..i : text[j] = "," }))

\* findFastVideoMatch, lines 155-158: the three tests of a candidate
hasArtist(video, artist) ==
  \E title \in {ToLowerCase(video.title)}, artistLower \in {ToLowerCase(artist)} :
    \/ Includes(title, artistLower)
    \/ Includes(title, BeforeComma(artistLower))
hasSong(video, song) == Includes(ToLowerCase(video.title), ToLowerCase(song))
isOfficial(video, artist) ==
  \E title \in {ToLowerCase(video.title)}, channel \in {ToLowerCase(video.channelTitle)} :
    \/ Includes(title, <<"official">>)
    \/ Includes(channel, <<"official">>)
    \/ Includes(channel, <<"vevo">>)
    \/ Includes(channel, ToLowerCase(artist))

\* the positions of the candidates whose title holds artist and song
Perfect(searchResults, artist, song) ==
  { i \in DOMAIN searchResults :
      hasArtist(searchResults[i], artist) /\ hasSong(searchResults[i], song) }

\* what findFastVideoMatch returns for the candidate it picked
Picked(video, official) ==
  [videoId |-> video.videoId, title |-> video.title,
   channelTitle |-> video.channelTitle, isOfficial |-> official]

\* the loop of findFastVideoMatch over the candidates, given the positions of
\* the perfect ones: the first perfect match, else the first result as not
\* official, else null (the empty list)
PickFrom(searchResults, perfect, artist) ==
  IF perfect # {}
  THEN CHOOSE best \in
         { << Picked(searchResults[first], isOfficial(searchResults[first], artist)) >> :
             first \in { n \in perfect : \A j \in perfect : n <= j } } : TRUE
  ELSE IF Len(searchResults) > 0
       THEN << Picked(searchResults[1], FALSE) >>
       ELSE << >>

\* findFastVideoMatch(searchResults, artist, song); the sets of one element
\* name the values of its arguments
findFastVideoMatch(searchResults, artist, song) ==
  CHOOSE best \in { PickFrom(rs, perfect, artist) :
                     rs \in {searchResults},
                     perfect \in {Perfect(searchResults, artist, song)} } : TRUE

NoVideo == << >>

(* ------------------------------- state -------------------------------- *)
VARIABLES
  clock,             \* last Date.now() reading
  jobObjs,           \* the ProcessingJob objects ever created
  processingJobs,    \* Map jobId -> index into jobObjs
  loops,             \* processJobInBackground invocations
  failedSearchCache, \* routes_new.ts failedSearchCache
  searchBackend,     \* behaviour of the external search, per query
  orphanSearches,    \* searches abandoned by a timer, still awaiting an answer
  returnedNoMatch,   \* pairs for which searchTrackOnYouTube has returned no match
  yt,                \* the searchForYouTubeVideos invocation
  orphanBatches,     \* searchYouTubeVideosInBatch runs abandoned by the batch timer
  fast,              \* the FastJob and its processFast invocation
  returned,          \* what the last pauseJob, resumeJob or deleteJob call returned
  reply,             \* a finished conversion and the response a route built from it
  conv,              \* the SimpleConverter.convertPlaylist invocation
  single,            \* the SimpleConverter.searchSingleTrack invocation
  ranking,           \* one searchTrackOnYouTube query and its ranked result
  chain              \* the client chaining /convert-playlist calls by nextResumePoint

sharedVars == <<failedSearchCache, searchBackend, orphanSearches, returnedNoMatch>>
\* what the steps of one processor leave alone in the others
otherThanBg == <<yt, orphanBatches, fast, reply, conv, single,
    ranking,
    chain>>
otherThanYT == <<clock, jobObjs, processingJobs, loops, fast, returned, reply, conv, single,
    ranking,
    chain>>
otherThanFast ==
  <<clock, jobObjs, processingJobs, loops, yt, orphanBatches, returned, reply, conv, single,
    ranking,
    chain>>
processorVars == <<clock, jobObjs, processingJobs, loops, failedSearchCache, searchBackend,
                   orphanSearches, returnedNoMatch, yt, orphanBatches, fast, returned, conv,
                   single,
    ranking,
    chain>>
otherThanConv == <<clock, jobObjs, processingJobs, loops, failedSearchCache, searchBackend,
                   orphanSearches, returnedNoMatch, yt, orphanBatches, fast, returned, reply,
                   single,
    ranking,
    chain>>
otherThanSingle == <<clock, jobObjs, processingJobs, loops, failedSearchCache, searchBackend,
                     orphanSearches, returnedNoMatch, yt, orphanBatches, fast, returned, reply,
                     conv,
    ranking,
    chain>>
otherThanRank == <<clock, jobObjs, processingJobs, loops, failedSearchCache, searchBackend,
    orphanSearches, returnedNoMatch, yt, orphanBatches,
    fast, returned, reply, conv, single,
    chain>>
otherThanChain == <<clock, jobObjs, processingJobs, loops, failedSearchCache, searchBackend,
    orphanSearches, returnedNoMatch, yt, orphanBatches,
    fast, returned, reply, conv, single, ranking>>
vars == <<clock, jobObjs, processingJobs, loops, failedSearchCache, searchBackend,
          orphanSearches, returnedNoMatch, yt, orphanBatches, fast, returned, reply, conv,
          single,
    ranking,
    chain>>

maxAttempts == 3

(* ---------------------- searchTrackOnYouTube call --------------------- *)
\* The synchronous head of searchTrackOnYouTube: a cached failure resolves
\* at once with bestVideo = null, otherwise the query goes to the backend.
CallState(track, cache) ==
  IF CacheKey(track.artist, track.name) \in cache THEN "cached" ELSE "inflight"

NewCall(track, cache, noMatch) ==
  [state |-> CallState(track, cache),
   afterNoMatch |-> PairOf(track.artist, track.name) \in noMatch]

IdleCall == [state |-> "none", afterNoMatch |-> FALSE]

\* failedSearchCache after a call that ends with bestVideo = null
CacheAfterNoMatch(cache, track) == cache \cup {CacheKey(track.artist, track.name)}

(* ------------------------- background processor ----------------------- *)
NewJob(jobId, playlistId, tracks) ==
  [id |-> jobId, playlistId |-> playlistId, tracks |-> tracks,
   processedTracks |-> << >>, currentIndex |-> 0, status |-> "processing",
   stats |-> [total |-> Len(tracks), processed |-> 0, found |-> 0, failed |-> 0]]

JobIdOf(playlistId, now) == playlistId \o <<"_", now>>

PushFound(job, track, videoId) ==
  [job EXCEPT
     !.processedTracks = Append(@, [name |-> track.name, artist |-> track.artist,
                                    youtubeVideoId |-> videoId, status |-> "Found",
                                    error |-> "none"]),
     !.stats.found = @ + 1,
     !.stats.processed = @ + 1,
     !.currentIndex = @ + 1]

PushNotFoundUncounted(job, track, err) ==
  [job EXCEPT
     !.processedTracks = Append(@, [name |-> track.name, artist |-> track.artist,
                                    youtubeVideoId |-> NoVideo, status |-> "Not found",
                                    error |-> err]),
     !.stats.failed = @ + 1,
     !.currentIndex = @ + 1]

PushNotFound(job, track, err) ==
  [job EXCEPT
     !.processedTracks = Append(@, [name |-> track.name, artist |-> track.artist,
                                    youtubeVideoId |-> NoVideo, status |-> "Not found",
                                    error |-> err]),
     !.stats.failed = @ + 1,
     !.stats.processed = @ + 1,
     !.currentIndex = @ + 1]

DoneLoop(o) ==
  [job |-> o, pc |-> "done", track |-> [name |-> << >>, artist |-> << >>],
   attempt |-> 0, call |-> IdleCall]

\* a loop that has returned is dropped from the list of live invocations
Live(ls) == SelectSeq(ls, LAMBDA lp : lp.pc # "done")

\* The while test of processJobInBackground and, when it passes, the head of
\* the iteration up to the await inside processTrackWithRetries; when it
\* fails, the statements after the loop.  Returns the job and the loop.
LoopTestIgnoresStatus(job) == job.currentIndex < Len(job.tracks)
LoopTest(job) == job.currentIndex < Len(job.tracks) /\ job.status = "processing"

AfterLoop(job) == [job EXCEPT !.status = "completed"]

LoopIterate(o, job, cache, noMatch) ==
  IF LoopTest(job)
  THEN [job |-> job,
        loop |-> [job |-> o, pc |-> "search", track |-> job.tracks[job.currentIndex + 1],
                  attempt |-> 1, call |-> NewCall(job.tracks[job.currentIndex + 1], cache, noMatch)]]
  ELSE [job |-> AfterLoop(job), loop |-> DoneLoop(o)]

MapSet(m, k, v) == [x \in DOMAIN m \cup {k} |-> IF x = k THEN v ELSE m[x]]
MapDelete(m, k) == [x \in DOMAIN m \ {k} |-> m[x]]

\* searchYouTubeAPI sends the query of a call that missed failedSearchCache
Sends(lp) == lp.pc = "search" /\ lp.call.state = "inflight"

QuerySentFor(sends, track) ==
  IF sends
  THEN \E b \in BehaviourOf(searchBackend, SearchQuery(track.artist, track.name)) :
         searchBackend' = MapSet(searchBackend, SearchQuery(track.artist, track.name), b)
  ELSE UNCHANGED searchBackend

QuerySent(lp) == QuerySentFor(Sends(lp), lp.track)

\* Date.now(): the reading of the first call is the origin, a later call
\* reads the same millisecond or a later one
Now == IF jobObjs = << >> THEN {clock} ELSE {clock, clock + 1}

RECURSIVE TotalTracks(_)
TotalTracks(objs) ==
  IF objs = << >> THEN 0 ELSE Len(Head(objs).tracks) + TotalTracks(Tail(objs))

\* startProcessing(playlistId, tracks)
startProcessing(playlistId, tracks) ==
  /\ \E now \in Now :
       LET jobId == JobIdOf(playlistId, now)
           o == Len(jobObjs) + 1
           r == LoopIterate(o, NewJob(jobId, playlistId, tracks),
                            failedSearchCache, returnedNoMatch)
       IN /\ clock' = now
          /\ jobObjs' = Append(jobObjs, r.job)
          /\ processingJobs' = MapSet(processingJobs, jobId, o)
          /\ loops' = Live(Append(loops, r.loop))
          /\ QuerySent(r.loop)
  /\ UNCHANGED <<failedSearchCache, orphanSearches, returnedNoMatch>>
  /\ UNCHANGED <<otherThanBg, returned>>

\* One attempt of processTrackWithRetries ended without a video (no match,
\* or the 15 s timer): wait and retry, or give up after maxAttempts and let
\* processJobInBackground record the failure and sleep 300 ms.
AttemptFailed(l) ==
  LET lp == loops[l]
      job == jobObjs[lp.job]
  IN IF lp.attempt < maxAttempts
     THEN /\ loops' = [loops EXCEPT ![l].pc = "retryWait", ![l].call = IdleCall]
          /\ UNCHANGED jobObjs
     ELSE /\ jobObjs' = [jobObjs EXCEPT ![lp.job] =
                           PushNotFound(job, lp.track, "No results found after 3 attempts")]
          /\ loops' = [loops EXCEPT ![l].pc = "delay", ![l].call = IdleCall]

\* the backend answers the query of an awaited searchTrackOnYouTube call
SearchReturns(l) ==
  /\ loops[l].pc = "search"
  /\ loops[l].call.state = "inflight"
  /\ LET lp == loops[l]
         query == SearchQuery(lp.track.artist, lp.track.name)
     IN \E resp \in Responses(searchBackend[query]) :
          LET best == findFastVideoMatch(searchYouTubeAPI(query, resp), lp.track.artist, lp.track.name)
          IN /\ IF best # << >>
                THEN /\ jobObjs' = [jobObjs EXCEPT ![lp.job] =
                                      PushFound(jobObjs[lp.job], lp.track, best[1].videoId)]
                     /\ loops' = [loops EXCEPT ![l].pc = "delay", ![l].call = IdleCall]
                     /\ UNCHANGED <<failedSearchCache, returnedNoMatch>>
                ELSE /\ failedSearchCache' = CacheAfterNoMatch(failedSearchCache, lp.track)
                     /\ returnedNoMatch' =
                          returnedNoMatch \cup {PairOf(lp.track.artist, lp.track.name)}
                     /\ AttemptFailed(l)
  /\ UNCHANGED <<clock, processingJobs, searchBackend, orphanSearches>>
  /\ UNCHANGED <<otherThanBg, returned>>

\* the call was answered from failedSearchCache: bestVideo = null, no query
CachedReturns(l) ==
  /\ loops[l].pc = "search"
  /\ loops[l].call.state = "cached"
  /\ returnedNoMatch' =
       returnedNoMatch \cup {PairOf(loops[l].track.artist, loops[l].track.name)}
  /\ AttemptFailed(l)
  /\ UNCHANGED <<clock, processingJobs, failedSearchCache, searchBackend, orphanSearches>>
  /\ UNCHANGED <<otherThanBg, returned>>

\* the 15 s timer of processTrackWithRetries wins the race; the search it
\* raced against stays pending when the backend may still answer
SearchTimeout(l) ==
  /\ loops[l].pc = "search"
  /\ loops[l].call.state = "inflight"
  /\ LET lp == loops[l]
         query == SearchQuery(lp.track.artist, lp.track.name)
     IN /\ CanTimeOut(searchBackend[query])
        /\ orphanSearches' =
             IF Responses(searchBackend[query]) # {}
             THEN orphanSearches \cup {lp.track} ELSE orphanSearches
  /\ AttemptFailed(l)
  /\ UNCHANGED <<clock, processingJobs, failedSearchCache, searchBackend, returnedNoMatch>>
  /\ UNCHANGED <<otherThanBg, returned>>

\* a search nobody awaits any more gets an answer without results
OrphanReturns(t) ==
  /\ t \in orphanSearches
  /\ orphanSearches' = orphanSearches \ {t}
  /\ failedSearchCache' = CacheAfterNoMatch(failedSearchCache, t)
  /\ returnedNoMatch' = returnedNoMatch \cup {PairOf(t.artist, t.name)}
  /\ UNCHANGED <<clock, jobObjs, processingJobs, loops, searchBackend>>
  /\ UNCHANGED <<otherThanBg, returned>>

\* the 2000 * attempt ms wait ends: next attempt
RetryWaitDone(l) ==
  /\ loops[l].pc = "retryWait"
  /\ loops' = [loops EXCEPT ![l].pc = "search",
                            ![l].attempt = @ + 1,
                            ![l].call = NewCall(loops[l].track, failedSearchCache,
                                                returnedNoMatch)]
  /\ QuerySent(loops'[l])
  /\ UNCHANGED <<clock, jobObjs, processingJobs, failedSearchCache, orphanSearches,
                 returnedNoMatch>>
  /\ UNCHANGED <<otherThanBg, returned>>

\* the 300 ms sleep ends: back to the while test
DelayDone(l) ==
  /\ loops[l].pc = "delay"
  /\ LET o == loops[l].job
         r == LoopIterate(o, jobObjs[o], failedSearchCache, returnedNoMatch)
     IN /\ jobObjs' = [jobObjs EXCEPT ![o] = r.job]
        /\ loops' = Live([loops EXCEPT ![l] = r.loop])
        /\ QuerySent(r.loop)
  /\ UNCHANGED <<clock, processingJobs, failedSearchCache, orphanSearches, returnedNoMatch>>
  /\ UNCHANGED <<otherThanBg, returned>>

PauseGuardAnyStatus(job) == job.status \in {"processing", "paused", "completed"}
PauseGuard(job) == job.status = "processing"

ResumeGuard(job) == job.status = "paused"

\* processingJobs.get(jobId) of a registered id
JobOf(jobId) == jobObjs[processingJobs[jobId]]

\* pauseJob(jobId)
pauseJob(jobId) ==
  /\ IF jobId \in DOMAIN processingJobs /\ PauseGuard(JobOf(jobId))
     THEN /\ jobObjs' = [jobObjs EXCEPT ![processingJobs[jobId]].status = "paused"]
          /\ returned' = "true"
     ELSE /\ UNCHANGED jobObjs
          /\ returned' = "false"
  /\ UNCHANGED <<clock, processingJobs, loops, sharedVars>>
  /\ UNCHANGED otherThanBg

\* resumeJob(jobId); the model follows at most MaxLoops invocations of
\* processJobInBackground at a time
resumeJob(jobId) ==
  /\ IF jobId \in DOMAIN processingJobs /\ ResumeGuard(JobOf(jobId))
     THEN /\ Len(loops) < MaxLoops
          /\ LET o == processingJobs[jobId]
                 r == LoopIterate(o, [jobObjs[o] EXCEPT !.status = "processing"],
                                  failedSearchCache, returnedNoMatch)
             IN /\ jobObjs' = [jobObjs EXCEPT ![o] = r.job]
                /\ loops' = Live(Append(loops, r.loop))
                /\ QuerySent(r.loop)
          /\ returned' = "true"
     ELSE /\ UNCHANGED <<jobObjs, loops, searchBackend>>
          /\ returned' = "false"
  /\ UNCHANGED <<clock, processingJobs, failedSearchCache, orphanSearches, returnedNoMatch>>
  /\ UNCHANGED otherThanBg

\* deleteJob(jobId): the value of Map.delete
deleteJob(jobId) ==
  /\ IF jobId \in DOMAIN processingJobs
     THEN /\ processingJobs' = MapDelete(processingJobs, jobId)
          /\ returned' = "true"
     ELSE /\ UNCHANGED processingJobs
          /\ returned' = "false"
  /\ UNCHANGED <<clock, jobObjs, loops, sharedVars>>
  /\ UNCHANGED otherThanBg

\* getJobStatus(jobId): the job in a one-element list, the empty list for null
getJobStatus(jobId) ==
  IF jobId \in DOMAIN processingJobs THEN <<JobOf(jobId)>> ELSE << >>

(* ----------------- searchForYouTubeVideos (routes_new.ts) ------------- *)
maxConsecutiveFailures == 3

\* The playlist the route converts: three pairs, so that three batches can
\* each send a query of their own, then a second spelling of the first pair,
\* then the same tracks again.
PlaylistTrack(j) ==
  CASE j % 4 = 1 -> [name |-> <<"x">>, artist |-> <<"A">>]
    [] j % 4 = 2 -> [name |-> <<"y">>, artist |-> <<"b">>]
    [] j % 4 = 3 -> [name |-> <<"z">>, artist |-> <<"c">>]
    [] OTHER -> [name |-> <<"X">>, artist |-> <<"a">>]

Playlist == [j \in 1..MaxBatchTracks |-> PlaylistTrack(j)]

PlaylistPool == { Playlist[j] : j \in DOMAIN Playlist }

\* the tracks of a playlist at the positions in S, in playlist order
RECURSIVE TracksAt(_, _, _)
TracksAt(list, S, j) ==
  IF j > Len(list) THEN << >>
  ELSE (IF j \in S THEN << list[j] >> ELSE << >>) \o TracksAt(list, S, j + 1)

\* the playlist with some of its tracks removed
Playlists == { TracksAt(Playlist, S, 1) : S \in SUBSET (DOMAIN Playlist) }

Min(a, b) == IF a < b THEN a ELSE b

YTEntry(track, videoId, status, err) ==
  [name |-> track.name, artist |-> track.artist, youtubeVideoId |-> videoId,
   status |-> status, error |-> err]

\* batchLog has one flag per batch begun, TRUE when the batch hit its timeout;
\* emergency tells that the emergency exit was taken
IdleYT ==
  [pc |-> "idle", tracks |-> << >>, batchSize |-> 0, i |-> 0, results |-> << >>,
   processedCount |-> 0, consecutiveFailures |-> 0, globalTimeout |-> FALSE,
   k |-> 0, batchResults |-> << >>, call |-> IdleCall,
   sentAny |-> FALSE, allFailed |-> TRUE, failStreak |-> 0,
   batchLog |-> << >>, emergency |-> FALSE]

\* tracks.slice(i, i + batchSize)
Batch(y) == SubSeq(y.tracks, y.i + 1, Min(y.i + y.batchSize, Len(y.tracks)))

\* the track whose search the invocation awaits
YTTrack(y) == Batch(y)[y.k]

\* a searchTrackOnYouTube call for batch[k], from the batch run or the salvage loop
YTCall(y, pc, k, cache, noMatch) ==
  LET c == NewCall(Batch(y)[k], cache, noMatch)
  IN [y EXCEPT !.pc = pc, !.k = k, !.call = c,
               !.sentAny = @ \/ c.state = "inflight"]

YTSends(y) == y.pc \in {"batchSearch", "salvage"} /\ y.call.state = "inflight"

YTQuerySent(y) == QuerySentFor(YTSends(y), IF YTSends(y) THEN YTTrack(y) ELSE [name |-> << >>, artist |-> << >>])

\* the batches in a row, up to the one that just ended, in which every query
\* sent got no answer or an error
StreakAfterBatch(y) == IF y.sentAny /\ y.allFailed THEN y.failStreak + 1 ELSE 0

\* The head of the for loop at index y.i: the loop test, the global timeout
\* check, then searchYouTubeVideosInBatch up to its first await.
StartBatch(y, elapsed, cache, noMatch) ==
  IF y.i >= Len(y.tracks)
  THEN [y EXCEPT !.pc = "returned", !.call = IdleCall]
  ELSE IF elapsed
       THEN [y EXCEPT !.pc = "returned", !.call = IdleCall, !.globalTimeout = TRUE]
       ELSE YTCall([y EXCEPT !.batchResults = << >>, !.sentAny = FALSE, !.allFailed = TRUE],
                   "batchSearch", 1, cache, noMatch)

\* the race is won by the batch: lines 465-467, then the pause before the
\* next batch or the end of the loop
BatchSuccessKeepsCount(y) ==
  LET z == [y EXCEPT !.results = @ \o y.batchResults,
                     !.processedCount = @ + Len(Batch(y)),
                     !.failStreak = StreakAfterBatch(y),
                     !.batchLog = Append(@, FALSE),
                     !.call = IdleCall]
  IN IF z.i + z.batchSize < Len(z.tracks)
     THEN [z EXCEPT !.pc = "okDelay"]
     ELSE [z EXCEPT !.pc = "returned", !.i = @ + z.batchSize]
BatchSuccess(y) ==
  LET z == [y EXCEPT !.results = @ \o y.batchResults,
                     !.processedCount = @ + Len(Batch(y)),
                     !.consecutiveFailures = 0,
                     !.failStreak = StreakAfterBatch(y),
                     !.batchLog = Append(@, FALSE),
                     !.call = IdleCall]
  IN IF z.i + z.batchSize < Len(z.tracks) /\ z.consecutiveFailures = 0
     THEN [z EXCEPT !.pc = "okDelay"]
     ELSE [z EXCEPT !.pc = "returned", !.i = @ + z.batchSize]

\* searchYouTubeVideosInBatch moves to its next track, or returns
RunnerNext(y, cache, noMatch) ==
  IF y.k < Len(Batch(y))
  THEN YTCall(y, "batchSearch", y.k + 1, cache, noMatch)
  ELSE BatchSuccess(y)

\* bestVideo.viewCount.toLocaleString() on a candidate without viewCount
LogSelectedThrows(video) == "viewCount" \notin DOMAIN video

\* what the batch run pushes for a track whose search found bestVideo: the
\* found entry, then the catch block's entry when the log line throws
FoundStatus(video) ==
  IF video.isOfficial
  THEN "Found official video"
  ELSE "Found video (may be unofficial)"

FoundEntries(track, video) ==
  << YTEntry(track, video.videoId, FoundStatus(video), "none") >>
    \o (IF LogSelectedThrows(video)
        THEN << YTEntry(track, NoVideo, "Search error", "TypeError") >>
        ELSE << >>)

\* lines 546-561: the tracks after the failed batch
RECURSIVE EmergencyEntries(_, _)
EmergencyEntries(tracks, j) ==
  IF j > Len(tracks) THEN << >>
  ELSE << YTEntry(tracks[j], NoVideo, "Emergency stop",
                  "Processing halted due to consecutive failures") >>
         \o EmergencyEntries(tracks, j + 1)

\* the salvage loop is over: line 535, then the emergency exit or the 1 s wait
SalvageEnd(y) ==
  LET z == [y EXCEPT !.processedCount = @ + Len(Batch(y)),
                     !.failStreak = StreakAfterBatch(y),
                     !.call = IdleCall]
  IN IF z.consecutiveFailures >= maxConsecutiveFailures
     THEN [z EXCEPT !.pc = "returned", !.emergency = TRUE,
                    !.results = @ \o EmergencyEntries(z.tracks, z.i + z.batchSize + 1)]
     ELSE [z EXCEPT !.pc = "failDelay"]

SalvageNext(y, cache, noMatch) ==
  IF y.k < Len(Batch(y))
  THEN YTCall(y, "salvage", y.k + 1, cache, noMatch)
  ELSE SalvageEnd(y)

\* searchForYouTubeVideos(tracks, batchSize) up to its first await
searchForYouTubeVideos(tracks, batchSize) ==
  /\ yt.pc = "idle"
  /\ yt' = StartBatch([IdleYT EXCEPT !.tracks = tracks, !.batchSize = batchSize],
                      FALSE, failedSearchCache, returnedNoMatch)
  /\ YTQuerySent(yt')
  /\ UNCHANGED <<otherThanYT, failedSearchCache, orphanSearches, returnedNoMatch, orphanBatches>>

\* the backend answers the search the batch run awaits
BatchSearchReturns ==
  /\ yt.pc = "batchSearch"
  /\ yt.call.state = "inflight"
  /\ LET track == YTTrack(yt)
         query == SearchQuery(track.artist, track.name)
     IN \E resp \in Responses(searchBackend[query]) :
          LET best == findFastVideoMatch(searchYouTubeAPI(query, resp), track.artist, track.name)
              y == [yt EXCEPT !.allFailed = @ /\ resp = "throw"]
          IN IF best # << >>
             THEN /\ yt' = RunnerNext([y EXCEPT !.batchResults = @ \o FoundEntries(track, best[1])],
                                      failedSearchCache, returnedNoMatch)
                  /\ YTQuerySent(yt')
                  /\ UNCHANGED <<failedSearchCache, returnedNoMatch>>
             ELSE /\ failedSearchCache' = CacheAfterNoMatch(failedSearchCache, track)
                  /\ returnedNoMatch' = returnedNoMatch \cup {PairOf(track.artist, track.name)}
                  /\ yt' = [y EXCEPT !.pc = "batchDelay", !.call = IdleCall,
                                     !.batchResults = Append(@, YTEntry(track, NoVideo, "No video found", "none"))]
                  /\ UNCHANGED searchBackend
  /\ UNCHANGED <<otherThanYT, orphanSearches, orphanBatches>>

\* the batch run's call was answered from failedSearchCache
BatchCachedReturns ==
  /\ yt.pc = "batchSearch"
  /\ yt.call.state = "cached"
  /\ returnedNoMatch' = returnedNoMatch \cup {PairOf(YTTrack(yt).artist, YTTrack(yt).name)}
  /\ yt' = [yt EXCEPT !.pc = "batchDelay", !.call = IdleCall,
                      !.batchResults = Append(@, YTEntry(YTTrack(yt), NoVideo, "No video found", "none"))]
  /\ UNCHANGED <<otherThanYT, failedSearchCache, searchBackend, orphanSearches, orphanBatches>>

\* the 100 ms pause of the batch run ends
BatchDelayDone ==
  /\ yt.pc = "batchDelay"
  /\ yt' = RunnerNext(yt, failedSearchCache, returnedNoMatch)
  /\ YTQuerySent(yt')
  /\ UNCHANGED <<otherThanYT, failedSearchCache, orphanSearches, returnedNoMatch, orphanBatches>>

\* The 5 s timer wins the race: the batch run goes on unawaited, the catch
\* block counts the failure and starts the salvage loop.
BatchTimeout ==
  /\ yt.pc = "batchSearch"
  /\ yt.call.state = "inflight"
  /\ LET track == YTTrack(yt)
         query == SearchQuery(track.artist, track.name)
     IN /\ CanTimeOut(searchBackend[query])
        /\ orphanBatches' =
             IF Responses(searchBackend[query]) # {}
             THEN orphanBatches \cup {SubSeq(Batch(yt), yt.k, Len(Batch(yt)))}
             ELSE orphanBatches
  /\ yt' = YTCall([yt EXCEPT !.consecutiveFailures = @ + 1,
                              !.batchLog = Append(@, TRUE)], "salvage", 1,
                  failedSearchCache, returnedNoMatch)
  /\ YTQuerySent(yt')
  /\ UNCHANGED <<otherThanYT, failedSearchCache, orphanSearches, returnedNoMatch>>

\* the backend answers the salvage search
SalvageReturns ==
  /\ yt.pc = "salvage"
  /\ yt.call.state = "inflight"
  /\ LET track == YTTrack(yt)
         query == SearchQuery(track.artist, track.name)
     IN \E resp \in Responses(searchBackend[query]) :
          LET best == findFastVideoMatch(searchYouTubeAPI(query, resp), track.artist, track.name)
              y == [yt EXCEPT !.allFailed = @ /\ resp = "throw"]
          IN IF best # << >>
             THEN /\ yt' = SalvageNext([y EXCEPT !.results = Append(@,
                                          YTEntry(track, best[1].videoId, "Found via salvage", "none"))],
                                       failedSearchCache, returnedNoMatch)
                  /\ UNCHANGED <<failedSearchCache, returnedNoMatch>>
             ELSE /\ failedSearchCache' = CacheAfterNoMatch(failedSearchCache, track)
                  /\ returnedNoMatch' = returnedNoMatch \cup {PairOf(track.artist, track.name)}
                  /\ yt' = SalvageNext([y EXCEPT !.results = Append(@,
                                          YTEntry(track, NoVideo, "Search failed", "No video found"))],
                                       failedSearchCache', returnedNoMatch')
  /\ YTQuerySent(yt')
  /\ UNCHANGED <<otherThanYT, orphanSearches, orphanBatches>>

\* the salvage call was answered from failedSearchCache
SalvageCachedReturns ==
  /\ yt.pc = "salvage"
  /\ yt.call.state = "cached"
  /\ returnedNoMatch' = returnedNoMatch \cup {PairOf(YTTrack(yt).artist, YTTrack(yt).name)}
  /\ yt' = SalvageNext([yt EXCEPT !.results = Append(@,
                          YTEntry(YTTrack(yt), NoVideo, "Search failed", "No video found"))],
                       failedSearchCache, returnedNoMatch')
  /\ YTQuerySent(yt')
  /\ UNCHANGED <<otherThanYT, failedSearchCache, orphanSearches, orphanBatches>>

\* the 2 s timer of the salvage loop wins the race
SalvageTimeout ==
  /\ yt.pc = "salvage"
  /\ yt.call.state = "inflight"
  /\ LET track == YTTrack(yt)
         query == SearchQuery(track.artist, track.name)
     IN /\ CanTimeOut(searchBackend[query])
        /\ orphanSearches' =
             IF Responses(searchBackend[query]) # {}
             THEN orphanSearches \cup {track} ELSE orphanSearches
        /\ yt' = SalvageNext([yt EXCEPT !.results = Append(@,
                                YTEntry(track, NoVideo, "Search failed",
                                        "Batch timeout - exceeded 5 seconds"))],
                             failedSearchCache, returnedNoMatch)
  /\ YTQuerySent(yt')
  /\ UNCHANGED <<otherThanYT, failedSearchCache, returnedNoMatch, orphanBatches>>

\* the 1 s wait after a failed batch ends: i += batchSize and the loop head;
\* by then the 30 s of GLOBAL_TIMEOUT may have passed
FailDelayDone ==
  /\ yt.pc = "failDelay"
  /\ \E elapsed \in BOOLEAN :
       yt' = StartBatch([yt EXCEPT !.i = @ + yt.batchSize], elapsed,
                        failedSearchCache, returnedNoMatch)
  /\ YTQuerySent(yt')
  /\ UNCHANGED <<otherThanYT, failedSearchCache, orphanSearches, returnedNoMatch, orphanBatches>>

\* the 200 ms pause between successful batches ends
OkDelayDone ==
  /\ yt.pc = "okDelay"
  /\ \E elapsed \in BOOLEAN :
       yt' = StartBatch([yt EXCEPT !.i = @ + yt.batchSize], elapsed,
                        failedSearchCache, returnedNoMatch)
  /\ YTQuerySent(yt')
  /\ UNCHANGED <<otherThanYT, failedSearchCache, orphanSearches, returnedNoMatch, orphanBatches>>

\* the tracks an abandoned batch run still sends a query for: those that
\* miss failedSearchCache
RECURSIVE SkipCached(_, _)
SkipCached(rest, cache) ==
  IF rest = << >> THEN << >>
  ELSE IF CallState(Head(rest), cache) = "cached" THEN SkipCached(Tail(rest), cache)
       ELSE rest

\* an abandoned batch run gets the answer it was waiting for and goes on
\* with the rest of its batch
OrphanBatchReturns(run) ==
  /\ run \in orphanBatches
  /\ LET track == Head(run)
         query == SearchQuery(track.artist, track.name)
     IN \E resp \in Responses(searchBackend[query]) :
          LET best == findFastVideoMatch(searchYouTubeAPI(query, resp), track.artist, track.name)
              cache == IF best # << >> THEN failedSearchCache
                       ELSE CacheAfterNoMatch(failedSearchCache, track)
              rest == SkipCached(Tail(run), cache)
          IN /\ failedSearchCache' = cache
             /\ returnedNoMatch' =
                  IF best # << >> THEN returnedNoMatch
                  ELSE returnedNoMatch \cup {PairOf(track.artist, track.name)}
             /\ orphanBatches' = (orphanBatches \ {run}) \cup (IF rest = << >> THEN {} ELSE {rest})
             /\ QuerySentFor(rest # << >>, IF rest # << >> THEN Head(rest) ELSE track)
  /\ UNCHANGED <<otherThanYT, orphanSearches, yt>>

(* ----------------------- POST /convert-playlist ---------------------- *)
\* playlist.tracks as fetchSpotifyPlaylist returns them on every call; the
\* last track is the second spelling of the first
ChainPlaylist ==
  [j \in 1..MaxChainTracks |-> PlaylistTrack(IF j = MaxChainTracks THEN 4 ELSE j)]

\* the chain of calls: the next resumeFromTrack and the responses so far
IdleChain == [pc |-> "idle", resumeFromTrack |-> 0, responses |-> << >>]

\* playlist.tracks.slice(resumeFromTrack, resumeFromTrack + maxTracksPerConversion)
tracksToProcess(tracks, resumeFromTrack) ==
  SubSeq(tracks, resumeFromTrack + 1,
         Min(resumeFromTrack + maxTracksPerConversion, Len(tracks)))

\* tracksWithVideos.filter(track => !track.youtubeVideoId).length
failedCount(tracksWithVideos) ==
  Cardinality({ n \in DOMAIN tracksWithVideos :
                  tracksWithVideos[n].youtubeVideoId = NoVideo })

\* resumeInfo of the response: nextResumePoint in a list, or null (empty)
resumeInfo(tracks, resumeFromTrack, tracksWithVideos) ==
  IF \/ failedCount(tracksWithVideos) > 0
     \/ resumeFromTrack + Len(tracksWithVideos) < Len(tracks)
  THEN << resumeFromTrack + Len(tracksWithVideos) >>
  ELSE << >>

\* the route handler up to await searchForYouTubeVideos(tracksToProcess, 10)
ConvertPlaylistCalled ==
  /\ chain.pc = "idle"
  /\ searchForYouTubeVideos(tracksToProcess(ChainPlaylist, chain.resumeFromTrack), RouteBatchSize)

\* searchForYouTubeVideos has returned: res.json(...); the client takes
\* nextResumePoint as the resumeFromTrack of its next call, or stops when
\* resumeInfo is null
ConvertPlaylistResponds ==
  /\ chain.pc = "idle"
  /\ yt.pc = "returned"
  /\ LET info == resumeInfo(ChainPlaylist, chain.resumeFromTrack, yt.results)
         response == [resumeFromTrack |-> chain.resumeFromTrack,
                      tracks |-> yt.results,
                      resumeInfo |-> info,
                      globalTimeout |-> yt.globalTimeout,
                      emergency |-> yt.emergency]
     IN chain' = [pc |-> IF info = << >> THEN "ended" ELSE "idle",
                  resumeFromTrack |-> IF info = << >> THEN chain.resumeFromTrack
                                      ELSE info[1],
                  responses |-> Append(chain.responses, response)]
  /\ yt' = IdleYT
  /\ UNCHANGED <<clock, jobObjs, processingJobs, loops, failedSearchCache, searchBackend,
                 orphanSearches, returnedNoMatch, orphanBatches, fast, returned, reply,
                 conv, single, ranking>>

(* -------------------- FastProcessor (unnamed/part_000) ---------------- *)
IdleFast ==
  [pc |-> "idle", status |-> "none", playlistId |-> << >>, tracks |-> << >>,
   i |-> 0, acc |-> << >>, slots |-> << >>, results |-> << >>,
   stats |-> [total |-> 0, processed |-> 0, found |-> 0, failed |-> 0],
   fetchFailed |-> FALSE]

\* job.tracks.slice(i, i + CONCURRENT_BATCH_SIZE)
FastBatch(f) == SubSeq(f.tracks, f.i + 1, Min(f.i + CONCURRENT_BATCH_SIZE, Len(f.tracks)))

\* fastSearch, given how its race settled: the video of a fulfilled search
\* with bestVideo, null otherwise; the catch turns a rejection into null
fastSearchRethrows(settled) ==
  IF settled.kind = "rejected"
  THEN [threw |-> TRUE, value |-> << >>]
  ELSE [threw |-> FALSE,
        value |-> IF settled.bestVideo # << >>
                  THEN << [videoId |-> settled.bestVideo[1].videoId,
                           title |-> settled.bestVideo[1].title] >>
                  ELSE << >>]
fastSearch(settled) ==
  IF settled.kind = "fulfilled" /\ settled.bestVideo # << >>
  THEN [threw |-> FALSE,
        value |-> << [videoId |-> settled.bestVideo[1].videoId,
                      title |-> settled.bestVideo[1].title] >>]
  ELSE [threw |-> FALSE, value |-> << >>]

\* the result the mapper of processFast returns for a track
MapperEntry(track, r) ==
  IF r.threw THEN YTEntry(track, NoVideo, "Error", "Timeout")
  ELSE IF r.value # << >> THEN YTEntry(track, r.value[1].videoId, "Found", "none")
       ELSE YTEntry(track, NoVideo, "Not found", "none")

\* the mapper of slot k ends: job.stats.found++ or job.stats.failed++
SlotDone(f, k, r) ==
  [f EXCEPT !.slots[k] = [state |-> "done", result |-> MapperEntry(FastBatch(f)[k], r)],
            !.stats.found = IF ~r.threw /\ r.value # << >> THEN @ + 1 ELSE @,
            !.stats.failed = IF ~r.threw /\ r.value # << >> THEN @ ELSE @ + 1]

\* batch.map starts every mapper: each runs fastSearch up to the await of
\* its race; a search answered from failedSearchCache settles at once
RECURSIVE StartSlots(_, _, _)
StartSlots(f, k, cache) ==
  IF k > Len(FastBatch(f)) THEN f
  ELSE IF CallState(FastBatch(f)[k], cache) = "cached"
       THEN StartSlots(SlotDone(f, k, fastSearch([kind |-> "fulfilled", bestVideo |-> << >>])),
                       k + 1, cache)
       ELSE StartSlots([f EXCEPT !.slots[k] = [state |-> "inflight", result |-> << >>]],
                       k + 1, cache)

EmptySlots(n) == [k \in 1..n |-> [state |-> "new", result |-> << >>]]

AllDone(f) == \A k \in DOMAIN f.slots : f.slots[k].state = "done"

\* Promise.all is settled: lines 135-139, the next batch, or the end of the job
RECURSIVE FastAdvance(_, _)
FastAdvance(f, cache) ==
  IF f.pc # "batch" \/ ~AllDone(f) THEN f
  ELSE LET acc == f.acc \o [k \in DOMAIN f.slots |-> f.slots[k].result]
           g == [f EXCEPT !.acc = acc, !.stats.processed = Len(acc),
                          !.i = @ + CONCURRENT_BATCH_SIZE, !.slots = << >>]
       IN IF g.i < Len(g.tracks)
          THEN FastAdvance(StartSlots([g EXCEPT !.slots = EmptySlots(Len(FastBatch(g)))], 1, cache),
                           cache)
          ELSE [g EXCEPT !.pc = "done", !.results = g.acc, !.status = "completed"]

\* the queries the mappers still awaiting an answer have sent
PendingTracks(f) ==
  { FastBatch(f)[k] : k \in { j \in DOMAIN f.slots : f.slots[j].state = "inflight" } }

QueriesSent(tracks) ==
  LET qs == { SearchQuery(t.artist, t.name) : t \in tracks } \ DOMAIN searchBackend
  IN \E bs \in [qs -> Behaviours] :
       searchBackend' = [q \in DOMAIN searchBackend \cup qs |->
                           IF q \in qs THEN bs[q] ELSE searchBackend[q]]

\* startFastProcessing(playlistId): the job, and processFast up to the await
\* of fetchSpotifyPlaylist
startFastProcessing(playlistId) ==
  /\ fast.pc = "idle"
  /\ fast' = [IdleFast EXCEPT !.pc = "fetching", !.status = "processing",
                              !.playlistId = playlistId]
  /\ UNCHANGED <<otherThanFast, sharedVars>>

\* fetchSpotifyPlaylist returns the playlist
FetchReturns(tracks) ==
  /\ fast.pc = "fetching"
  /\ LET f == [fast EXCEPT !.tracks = tracks, !.stats.total = Len(tracks), !.pc = "batch"]
     IN fast' = IF Len(tracks) = 0
                THEN [f EXCEPT !.pc = "done", !.status = "completed"]
                ELSE FastAdvance(StartSlots([f EXCEPT !.slots = EmptySlots(Len(FastBatch(f)))],
                                            1, failedSearchCache),
                                 failedSearchCache)
  /\ QueriesSent(IF fast'.pc = "batch" THEN PendingTracks(fast') ELSE {})
  /\ UNCHANGED <<otherThanFast, failedSearchCache, orphanSearches, returnedNoMatch>>

\* fetchSpotifyPlaylist throws: the outer catch of processFast
FetchThrows ==
  /\ fast.pc = "fetching"
  /\ fast' = [fast EXCEPT !.pc = "done", !.status = "failed", !.fetchFailed = TRUE]
  /\ UNCHANGED <<otherThanFast, sharedVars>>

\* the backend answers the search of mapper k
FastSearchReturns(k) ==
  /\ fast.pc = "batch"
  /\ k \in DOMAIN fast.slots
  /\ fast.slots[k].state = "inflight"
  /\ LET track == FastBatch(fast)[k]
         query == SearchQuery(track.artist, track.name)
     IN \E resp \in Responses(searchBackend[query]) :
          LET best == findFastVideoMatch(searchYouTubeAPI(query, resp), track.artist, track.name)
              cache == IF best # << >> THEN failedSearchCache
                       ELSE CacheAfterNoMatch(failedSearchCache, track)
          IN /\ failedSearchCache' = cache
             /\ returnedNoMatch' =
                  IF best # << >> THEN returnedNoMatch
                  ELSE returnedNoMatch \cup {PairOf(track.artist, track.name)}
             /\ fast' = FastAdvance(SlotDone(fast, k, fastSearch([kind |-> "fulfilled",
                                                                  bestVideo |-> best])),
                                    cache)
  /\ QueriesSent(IF fast'.pc = "batch" THEN PendingTracks(fast') ELSE {})
  /\ UNCHANGED <<otherThanFast, orphanSearches>>

\* the 3 s timer of fastSearch wins the race of mapper k
FastSearchTimeout(k) ==
  /\ fast.pc = "batch"
  /\ k \in DOMAIN fast.slots
  /\ fast.slots[k].state = "inflight"
  /\ LET track == FastBatch(fast)[k]
         query == SearchQuery(track.artist, track.name)
     IN /\ CanTimeOut(searchBackend[query])
        /\ orphanSearches' =
             IF Responses(searchBackend[query]) # {}
             THEN orphanSearches \cup {track} ELSE orphanSearches
        /\ fast' = FastAdvance(SlotDone(fast, k, fastSearch([kind |-> "rejected",
                                                             bestVideo |-> << >>])),
                               failedSearchCache)
  /\ QueriesSent(IF fast'.pc = "batch" THEN PendingTracks(fast') ELSE {})
  /\ UNCHANGED <<otherThanFast, failedSearchCache, returnedNoMatch>>

(* ------------- searchTrackOnYouTube: ranking the results -------------- *)
\* searchYouTubeAPI(query, 3): the number of results asked for
maxResults == 3

\* the titles and channel names a result of the search may carry
TitlePool ==
  { <<"A", " ", "x">>, <<"a", " ", "X", " ", "Official">>, <<"x">>,
    <<"x", " ", "official">>, <<"a">>, <<"z">> }
ChannelPool == { <<"c">>, <<"a", "VEVO">> }

\* a search result: id.videoId, snippet.title, snippet.channelTitle
SearchResult(videoId, title, channelTitle) ==
  [videoId |-> videoId, title |-> title, channelTitle |-> channelTitle]

\* the result lists of one query: up to maxResults videos, ids by position
SearchResultLists ==
  UNION { { [i \in 1..n |-> SearchResult(<<"v", i>>, f[i][1], f[i][2])] :
            f \in [1..n -> TitlePool \X ChannelPool] } :
          n \in 0..maxResults }

IdleRanking ==
  [pc |-> "idle", track |-> [name |-> << >>, artist |-> << >>],
   searchResults |-> << >>, bestVideo |-> << >>]

\* searchTrackOnYouTube sends its one query
RankSearchSent ==
  /\ ranking.pc = "idle"
  /\ \E track \in TrackPool :
       ranking' = [IdleRanking EXCEPT !.pc = "awaiting", !.track = track]
  /\ UNCHANGED otherThanRank

\* the results arrive and findFastVideoMatch picks bestVideo
RankSearchReturns ==
  /\ ranking.pc = "awaiting"
  /\ \E searchResults \in SearchResultLists :
       ranking' = [ranking EXCEPT
                    !.pc = "returned",
                    !.searchResults = searchResults,
                    !.bestVideo = findFastVideoMatch(searchResults, ranking.track.artist,
                                                     ranking.track.name)]
  /\ UNCHANGED otherThanRank

\* the caller takes the result; the next call starts afresh
RankNextCall ==
  /\ ranking.pc = "returned"
  /\ ranking' = IdleRanking
  /\ UNCHANGED otherThanRank

(* ------------------ SimpleConverter.searchSingleTrack ----------------- *)
\* a video of a search result: id.videoId, url and title, each possibly missing
Video(videoId, url, title) == [videoId |-> videoId, url |-> url, title |-> title]

\* the result lists query q can get: none, videos without id or without
\* title, a video whose id is in its url, a usable video after an unusable one
ResultLists(q) ==
  { << >>,
    << Video(<< >>, << >>, <<"t">>) >>,
    << Video(<<"v", q>>, << >>, << >>) >>,
    << Video(<< >>, <<"youtu.be/", "u", q>>, <<"t">>) >>,
    << Video(<< >>, << >>, <<"t">>), Video(<<"v", q>>, << >>, <<"t">>) >> }

\* video.id?.videoId, else the id matched in video.url, else null
VideoIdOf(video) ==
  IF video.videoId # << >> THEN video.videoId
  ELSE IF video.url # << >> THEN Tail(video.url)
  ELSE << >>

\* the first video of the list with an id and a title, in a list; empty if none
RECURSIVE FirstUsable(_)
FirstUsable(results) ==
  IF results = << >> THEN << >>
  ELSE IF VideoIdOf(Head(results)) # << >> /\ Head(results).title # << >>
       THEN << Head(results) >>
       ELSE FirstUsable(Tail(results))

\* issued: the queries sent, in order; log: how each one ended
IdleSingle ==
  [pc |-> "idle", track |-> [name |-> << >>, artist |-> << >>], q |-> 0,
   issued |-> << >>, log |-> << >>,
   result |-> [youtubeVideoId |-> NoVideo, status |-> "none"]]

\* the for loop over queries moves on: the next query is sent, or the list
\* is exhausted and the track is 'failed'
NextQuery(s) ==
  IF s.q < MaxQueries
  THEN [s EXCEPT !.pc = "query", !.q = @ + 1, !.issued = Append(@, s.q + 1)]
  ELSE [s EXCEPT !.pc = "returned",
                 !.result = [youtubeVideoId |-> NoVideo, status |-> "failed"]]

\* searchSingleTrack(artist, song, timeoutMs) up to its first await
searchSingleTrack(track) ==
  /\ single.pc = "idle"
  /\ single' = NextQuery([IdleSingle EXCEPT !.track = track])
  /\ UNCHANGED otherThanSingle

\* ytSearchModule.search answers the query before the timer
QueryReturns ==
  /\ single.pc = "query"
  /\ \E results \in ResultLists(single.q) :
       LET s == [single EXCEPT !.log = Append(@, [kind |-> "results", results |-> results])]
           usable == FirstUsable(results)
       IN single' = IF usable # << >>
                    THEN [s EXCEPT !.pc = "returned",
                                   !.result = [youtubeVideoId |-> VideoIdOf(usable[1]),
                                               status |-> "found"]]
                    ELSE NextQuery(s)
  /\ UNCHANGED otherThanSingle

QueryThrowsAborts ==
  /\ single.pc = "query"
  /\ single' = [single EXCEPT
                  !.log = Append(@, [kind |-> "throw", results |-> << >>]),
                  !.pc = "returned",
                  !.result = [youtubeVideoId |-> NoVideo, status |-> "failed"]]
  /\ UNCHANGED otherThanSingle

\* ytSearchModule.search rejects: the catch block continues with the next query
QueryThrows ==
  /\ single.pc = "query"
  /\ single' = NextQuery([single EXCEPT
                            !.log = Append(@, [kind |-> "throw", results |-> << >>])])
  /\ UNCHANGED otherThanSingle

\* the timeoutMs timer wins the race: same catch block
QueryTimeout ==
  /\ single.pc = "query"
  /\ single' = NextQuery([single EXCEPT
                            !.log = Append(@, [kind |-> "timeout", results |-> << >>])])
  /\ UNCHANGED otherThanSingle

(* ------------------- SimpleConverter.convertPlaylist ------------------ *)
\* ConversionResult of searchSingleTrack / retryFailedTrack
ConversionResult(track, status) ==
  [name |-> track.name, artist |-> track.artist,
   youtubeVideoId |-> IF status = "found" THEN <<"v">> \o track.name ELSE NoVideo,
   status |-> status]

CountStatus(results, status) ==
  Len(SelectSeq(results, LAMBDA r : r.status = status))

\* Array.prototype.slice(from, to) with 0 <= from
Slice(list, from, to) == SubSeq(list, from + 1, Min(to, Len(list)))

\* Array.prototype.findIndex, 1-based, 0 for -1
FindIndex(results, track) ==
  IF \E j \in DOMAIN results : results[j].name = track.name /\ results[j].artist = track.artist
  THEN CHOOSE j \in DOMAIN results :
         /\ results[j].name = track.name /\ results[j].artist = track.artist
         /\ \A h \in 1..(j - 1) :
              ~(results[h].name = track.name /\ results[h].artist = track.artist)
  ELSE 0

\* the indexes of the 'failed' entries of results, in order: where the
\* entries of failedTracks stand in results
FailedIndexes(results) ==
  SelectSeq([n \in 1..Len(results) |-> n], LAMBDA n : results[n].status = "failed")

\* failedAt: the index of each failedTracks entry in results; retryLog: for
\* each retry whether it returned a video, the index findIndex gave and
\* whether the entry there was 'found' already
IdleConv ==
  [pc |-> "idle", tracks |-> << >>, numToProcess |-> 0, i |-> 0, results |-> << >>,
   failedTracks |-> << >>, failedAt |-> << >>, retry |-> 0, retryLog |-> << >>,
   stats |-> [total |-> 0, found |-> 0, failed |-> 0]]

\* the for loop test of the batches and what follows it up to the next await
ConvLoop(c) ==
  IF c.i < c.numToProcess
  THEN [c EXCEPT !.pc = "batch"]
  ELSE LET failedTracks == SelectSeq(c.results, LAMBDA r : r.status = "failed")
       IN IF Len(failedTracks) > 0
          THEN [c EXCEPT !.pc = "retry", !.failedTracks = failedTracks,
                         !.failedAt = FailedIndexes(c.results), !.retry = 1]
          ELSE [c EXCEPT !.pc = "returned",
                         !.stats = [total |-> c.numToProcess,
                                    found |-> CountStatus(c.results, "found"),
                                    failed |-> CountStatus(c.results, "failed")]]

\* convertPlaylist(tracks, maxTracks); maxTracks 0 stands for absent as well
convertPlaylist(tracks, maxTracks) ==
  /\ conv.pc = "idle"
  /\ conv' = ConvLoop([IdleConv EXCEPT
                         !.tracks = tracks,
                         !.numToProcess = IF maxTracks # 0 THEN maxTracks ELSE Len(tracks)])
  /\ UNCHANGED otherThanConv

\* Promise.all of the batch's searchSingleTrack calls settles; each call
\* ends 'found' or 'failed'
ConvBatchSettles ==
  /\ conv.pc = "batch"
  /\ LET tracksToConvert == Slice(conv.tracks, 0, conv.numToProcess)
         batch == Slice(tracksToConvert, conv.i, conv.i + BATCH_SIZE)
     IN \E status \in [DOMAIN batch -> {"found", "failed"}] :
          LET batchResults == [j \in DOMAIN batch |-> ConversionResult(batch[j], status[j])]
              c == [conv EXCEPT !.results = @ \o batchResults]
          IN conv' = IF conv.i + BATCH_SIZE < conv.numToProcess
                     THEN [c EXCEPT !.pc = "batchDelay"]
                     ELSE ConvLoop([c EXCEPT !.i = @ + BATCH_SIZE])
  /\ UNCHANGED otherThanConv

\* the 100 ms delay between batches ends
ConvBatchDelayDone ==
  /\ conv.pc = "batchDelay"
  /\ conv' = ConvLoop([conv EXCEPT !.i = @ + BATCH_SIZE])
  /\ UNCHANGED otherThanConv

\* retryFailedTrack for failedTracks[retry] ends, with a result or with null
ConvRetryReturns ==
  /\ conv.pc = "retry"
  /\ \E found \in BOOLEAN :
       LET track == conv.failedTracks[conv.retry]
           originalIndex == FindIndex(conv.results, track)
           results == IF found /\ originalIndex # 0
                      THEN [conv.results EXCEPT ![originalIndex] =
                              ConversionResult(track, "found")]
                      ELSE conv.results
           entry == [found |-> found, originalIndex |-> originalIndex,
                     wasFound |-> originalIndex # 0
                                    /\ conv.results[originalIndex].status = "found"]
       IN conv' = IF conv.retry < Len(conv.failedTracks)
                  THEN [conv EXCEPT !.results = results, !.retry = @ + 1,
                                    !.retryLog = Append(@, entry)]
                  ELSE [conv EXCEPT !.results = results,
                                    !.retryLog = Append(@, entry),
                                    !.pc = "returned",
                                    !.stats = [total |-> conv.numToProcess,
                                               found |-> CountStatus(results, "found"),
                                               failed |-> CountStatus(results, "failed")]]
  /\ UNCHANGED otherThanConv

\* retryFailedTrack awaits ytSearchModule.search without a timer: with a
\* backend that never answers the query, the await never ends
ConvRetryHangs ==
  /\ conv.pc = "retry"
  /\ conv' = [conv EXCEPT !.pc = "retryHung"]
  /\ UNCHANGED otherThanConv

(* ----------------------- playlist URL of a response ------------------- *)
WATCH_VIDEOS_LIMIT == 50

WatchVideosPrefix == "https://www.youtube.com/watch_videos?video_ids="

\* Array.prototype.join over strings
RECURSIVE Join(_, _)
Join(strs, sep) ==
  IF strs = << >> THEN << >>
  ELSE IF Len(strs) = 1 THEN strs[1]
  ELSE strs[1] \o <<sep>> \o Join(Tail(strs), sep)

\* SimpleConverter.createYouTubePlaylistUrl(videoIds)
createYouTubePlaylistUrl(videoIds) ==
  IF Len(videoIds) = 0 THEN << >>
  ELSE IF Len(videoIds) <= WATCH_VIDEOS_LIMIT
  THEN <<WatchVideosPrefix>> \o Join(videoIds, ",")
  ELSE <<"https://www.youtube.com/watch?v=">> \o videoIds[1]
         \o <<"&list=PLrAl1VWM-FgCcD4WrDvZNXxMvVoqQHq0w">>

\* entry j of a finished conversion of n tracks: not found when j falls on
\* the period, found with its own video id otherwise
ResultEntry(j, period, phase, found, notFound) ==
  IF period # 0 /\ j % period = phase
  THEN [youtubeVideoId |-> NoVideo, status |-> notFound]
  ELSE [youtubeVideoId |-> <<"v", j>>, status |-> found]

ResultList(n, period, phase, found, notFound) ==
  [j \in 1..n |-> ResultEntry(j, period, phase, found, notFound)]

VideoIdsOf(entries) == [j \in DOMAIN entries |-> entries[j].youtubeVideoId]

NoReply == [n |-> 0, period |-> 0, phase |-> 0, route |-> "none",
            youtubePlaylistUrl |-> << >>, tracks |-> << >>]

\* GET /job-results/:jobId for a job whose processedTracks are the list;
\* null is the empty string here
GetJobResults ==
  /\ reply.route = "none"
  /\ LET processedTracks == ResultList(reply.n, reply.period, reply.phase, "Found", "Not found")
         foundTracks == SelectSeq(processedTracks, LAMBDA t : t.youtubeVideoId # NoVideo)
     IN reply' = [reply EXCEPT
                    !.route = "job-results",
                    !.youtubePlaylistUrl =
                       IF Len(foundTracks) > 0
                       THEN <<WatchVideosPrefix>> \o Join(VideoIdsOf(foundTracks), ",")
                       ELSE << >>,
                    !.tracks = processedTracks]
  /\ UNCHANGED processorVars

\* POST /playlists/simple after convertPlaylist returned the list
SimpleConvertResponds ==
  /\ reply.route = "none"
  /\ LET results == ResultList(reply.n, reply.period, reply.phase, "found", "not_found")
         foundTracks == SelectSeq(results, LAMBDA t : t.status = "found")
         videoIds == SelectSeq(VideoIdsOf(foundTracks), LAMBDA id : id # NoVideo)
     IN reply' = [reply EXCEPT
                    !.route = "simple",
                    !.youtubePlaylistUrl = createYouTubePlaylistUrl(videoIds),
                    !.tracks = results]
  /\ UNCHANGED processorVars

JobIds == { JobIdOf(p, n) : p \in PlaylistIds, n \in 0..MaxJobs }

EmptyMap == [x \in {} |-> 0]

InitProcessors ==
  /\ clock = 0
  /\ jobObjs = << >>
  /\ processingJobs = EmptyMap
  /\ loops = << >>
  /\ failedSearchCache = {}
  /\ searchBackend = EmptyMap
  /\ orphanSearches = {}
  /\ returnedNoMatch = {}
  /\ yt = IdleYT
  /\ orphanBatches = {}
  /\ fast = IdleFast
  /\ returned = "none"
  /\ conv = IdleConv
  /\ single = IdleSingle
  /\ ranking = IdleRanking
  /\ chain = IdleChain

Init ==
  /\ InitProcessors
  /\ reply = NoReply

\* a client starts a job, within the bounds of the model
Submit ==
  /\ Len(jobObjs) < MaxJobs
  /\ \E p \in PlaylistIds, ts \in SeqsUpTo(TrackPool, MaxTracks) :
       /\ TotalTracks(jobObjs) + Len(ts) <= MaxTracks
       /\ startProcessing(p, ts)

\* jobs with the control calls that change something: a call that returns
\* false leaves every job as it was
Next ==
  \/ Submit
  \/ \E l \in DOMAIN loops : SearchReturns(l)
  \/ \E l \in DOMAIN loops : CachedReturns(l)
  \/ \E l \in DOMAIN loops : SearchTimeout(l)
  \/ \E l \in DOMAIN loops : RetryWaitDone(l)
  \/ \E l \in DOMAIN loops : DelayDone(l)
  \/ \E t \in TrackPool : OrphanReturns(t)
  \/ \E id \in JobIds : pauseJob(id) /\ returned' = "true"
  \/ \E id \in JobIds : resumeJob(id) /\ returned' = "true"
  \/ \E id \in JobIds : deleteJob(id) /\ returned' = "true"

Spec == Init /\ [][Next]_vars

\* a run in which no job is ever paused, resumed or deleted
NextUninterrupted ==
  \/ Submit
  \/ \E l \in DOMAIN loops : SearchReturns(l)
  \/ \E l \in DOMAIN loops : CachedReturns(l)
  \/ \E l \in DOMAIN loops : SearchTimeout(l)
  \/ \E l \in DOMAIN loops : RetryWaitDone(l)
  \/ \E l \in DOMAIN loops : DelayDone(l)
  \/ \E t \in TrackPool : OrphanReturns(t)

SpecUninterrupted == Init /\ [][NextUninterrupted]_vars

\* Timers fire and answers that can arrive do arrive: while some loop can
\* take a step, some loop eventually takes one.
LoopStep ==
  \E l \in DOMAIN loops :
    \/ SearchReturns(l)
    \/ CachedReturns(l)
    \/ SearchTimeout(l)
    \/ RetryWaitDone(l)
    \/ DelayDone(l)

\* the first startProcessing call of a run
SubmitFirst == jobObjs = << >> /\ Submit

\* one job followed from startProcessing to its end, never paused, resumed
\* or deleted
NextSingleJob ==
  \/ SubmitFirst
  \/ \E l \in DOMAIN loops : SearchReturns(l)
  \/ \E l \in DOMAIN loops : CachedReturns(l)
  \/ \E l \in DOMAIN loops : SearchTimeout(l)
  \/ \E l \in DOMAIN loops : RetryWaitDone(l)
  \/ \E l \in DOMAIN loops : DelayDone(l)
  \/ \E t \in TrackPool : OrphanReturns(t)

FairUninterrupted == Init /\ [][NextSingleJob]_vars /\ WF_vars(LoopStep)

\* clients start jobs one after the other, possibly for the same playlist
\* and within the same millisecond; no job is paused, resumed or deleted
SubmitAny ==
  /\ Len(jobObjs) < MaxStarts
  /\ \E p \in PlaylistIds, ts \in SeqsUpTo(TrackPool, MaxTracks) :
       /\ TotalTracks(jobObjs) + Len(ts) <= MaxTracks
       /\ startProcessing(p, ts)

NextStarts ==
  \/ SubmitAny
  \/ \E l \in DOMAIN loops : SearchReturns(l)
  \/ \E l \in DOMAIN loops : CachedReturns(l)
  \/ \E l \in DOMAIN loops : SearchTimeout(l)
  \/ \E l \in DOMAIN loops : RetryWaitDone(l)
  \/ \E l \in DOMAIN loops : DelayDone(l)
  \/ \E t \in TrackPool : OrphanReturns(t)

SpecStarts == Init /\ [][NextStarts]_vars

\* one job and the /job-control requests of a client, answered or not:
\* pause, resume and delete for the job's id and for an id that was never
\* issued, in any state of the job
SubmitControlled ==
  /\ jobObjs = << >>
  /\ \E p \in PlaylistIds, ts \in SeqsUpTo(TrackPool, MaxControlTracks) : startProcessing(p, ts)

NextControl ==
  \/ SubmitControlled
  \/ \E l \in DOMAIN loops : SearchReturns(l)
  \/ \E l \in DOMAIN loops : CachedReturns(l)
  \/ \E l \in DOMAIN loops : SearchTimeout(l)
  \/ \E l \in DOMAIN loops : RetryWaitDone(l)
  \/ \E l \in DOMAIN loops : DelayDone(l)
  \/ \E t \in TrackPool : OrphanReturns(t)
  \/ \E id \in JobIds : pauseJob(id)
  \/ \E id \in JobIds : resumeJob(id)
  \/ \E id \in JobIds : deleteJob(id)

SpecControl == Init /\ [][NextControl]_vars

\* a finished conversion of any length and the response built from it
InitReply ==
  /\ InitProcessors
  /\ \E n \in 0..MaxResults, period \in 0..MaxMissPeriod :
       \E phase \in 0..(IF period = 0 THEN 0 ELSE period - 1) :
         reply = [NoReply EXCEPT !.n = n, !.period = period, !.phase = phase]

NextReply ==
  \/ GetJobResults
  \/ SimpleConvertResponds

SpecReply == InitReply /\ [][NextReply]_vars

\* one convertPlaylist call of the simple routes: maxTracks absent (0),
\* smaller than, equal to or larger than tracks.length
NextConv ==
  \/ \E ts \in SeqsUpTo(TrackPool, MaxConvTracks), maxTracks \in 0..(MaxConvTracks + 1) :
       convertPlaylist(ts, maxTracks)
  \/ ConvBatchSettles
  \/ ConvBatchDelayDone
  \/ ConvRetryReturns
  \/ ConvRetryHangs

SpecConv == Init /\ [][NextConv]_vars

\* Timers fire and answers that arrive are handled: while convertPlaylist
\* can go on, it does.  Whether the backend answers is not up to the program.
ConvStep ==
  \/ ConvBatchSettles
  \/ ConvBatchDelayDone
  \/ ConvRetryReturns

FairConv == Init /\ [][NextConv]_vars /\ WF_vars(ConvStep)

\* one query of searchTrackOnYouTube and the ranking of its results
NextRank == RankSearchSent \/ RankSearchReturns \/ RankNextCall

SpecRank == Init /\ [][NextRank]_vars

\* one searchSingleTrack call and its queries
NextSingle ==
  \/ \E t \in TrackPool : searchSingleTrack(t)
  \/ QueryReturns
  \/ QueryThrows
  \/ QueryTimeout

SpecSingle == Init /\ [][NextSingle]_vars

\* a client chaining /convert-playlist calls over one playlist
NextChain ==
  \/ ConvertPlaylistCalled
  \/ ConvertPlaylistResponds
  \/ BatchSearchReturns
  \/ BatchCachedReturns
  \/ BatchDelayDone
  \/ BatchTimeout
  \/ SalvageReturns
  \/ SalvageCachedReturns
  \/ SalvageTimeout
  \/ FailDelayDone
  \/ OkDelayDone
  \/ \E run \in orphanBatches : OrphanBatchReturns(run)
  \/ \E t \in PlaylistPool : OrphanReturns(t)

SpecChain == Init /\ [][NextChain]_vars

\* one searchForYouTubeVideos call of the /convert-playlist route
Convert ==
  \E ts \in Playlists, b \in 1..MaxBatchSize :
    searchForYouTubeVideos(ts, b)

NextYT ==
  \/ Convert
  \/ BatchSearchReturns
  \/ BatchCachedReturns
  \/ BatchDelayDone
  \/ BatchTimeout
  \/ SalvageReturns
  \/ SalvageCachedReturns
  \/ SalvageTimeout
  \/ FailDelayDone
  \/ OkDelayDone
  \/ \E run \in orphanBatches : OrphanBatchReturns(run)
  \/ \E t \in PlaylistPool : OrphanReturns(t)

SpecYT == Init /\ [][NextYT]_vars

\* one fast job: the route's startFastProcessing call and what follows
NextFast ==
  \/ \E p \in PlaylistIds : startFastProcessing(p)
  \/ \E ts \in Playlists : FetchReturns(ts)
  \/ FetchThrows
  \/ \E k \in 1..CONCURRENT_BATCH_SIZE : FastSearchReturns(k)
  \/ \E k \in 1..CONCURRENT_BATCH_SIZE : FastSearchTimeout(k)
  \/ \E t \in PlaylistPool : OrphanReturns(t)

SpecFast == Init /\ [][NextFast]_vars

(* ======================= background job: claims ======================= *)
LiveLoopsOf(o) == { l \in DOMAIN loops : loops[l].job = o }

\* a backend that gives every query the same answer each time it is asked
DetBehaviours == Behaviours \ {"flaky"}
Deterministic == \A q \in DOMAIN searchBackend : searchBackend[q] \in DetBehaviours
DetCompletions ==
  { f \in [PoolQueries -> DetBehaviours] :
      \A q \in DOMAIN searchBackend : f[q] = searchBackend[q] }

\* processedTracks of a run of processJobInBackground that nothing interrupts,
\* from an empty failedSearchCache, against backend f
RECURSIVE UninterruptedRun(_, _, _, _)
UninterruptedRun(tracks, f, cache, acc) ==
  IF tracks = << >> THEN acc
  ELSE LET t == Head(tracks)
           q == SearchQuery(t.artist, t.name)
           found == CacheKey(t.artist, t.name) \notin cache /\ f[q] = "hit"
           entry == IF found
                    THEN [name |-> t.name, artist |-> t.artist,
                          youtubeVideoId |-> findFastVideoMatch(searchYouTubeAPI(q, "hit"),
                                                             t.artist, t.name)[1].videoId,
                          status |-> "Found", error |-> "none"]
                    ELSE [name |-> t.name, artist |-> t.artist,
                          youtubeVideoId |-> NoVideo, status |-> "Not found",
                          error |-> "No results found after 3 attempts"]
           cache2 == IF f[q] \in {"empty", "throw"}
                     THEN cache \cup {CacheKey(t.artist, t.name)} ELSE cache
       IN UninterruptedRun(Tail(tracks), f, cache2, Append(acc, entry))

\* C1: against a deterministic backend, a completed job holds the
\* processedTracks of an uninterrupted run, whatever pauseJob/resumeJob calls
\* were interleaved: one entry per track, in track order, same outcome.
C1_PauseResumeSameResults ==
  (Len(jobObjs) = 1 /\ jobObjs[1].status = "completed" /\ Deterministic)
    => \A f \in DetCompletions :
         jobObjs[1].processedTracks = UninterruptedRun(jobObjs[1].tracks, f, {}, << >>)

\* C2: once paused with tracks left, a registered job stays 'paused' in every
\* step that is not a resumeJob or deleteJob call for it.
C2_PausedUntilResumeOrDelete ==
  [][\A id \in DOMAIN processingJobs :
       LET o == processingJobs[id] IN
         (jobObjs[o].status = "paused" /\ jobObjs[o].currentIndex < Len(jobObjs[o].tracks))
           => (jobObjs'[o].status = "paused" \/ resumeJob(id) \/ deleteJob(id))]_vars

\* C3: status 'completed' implies every track has a result:
\* currentIndex = tracks.length = processedTracks.length.
C3_CompletedMeansAllProcessed ==
  \A o \in DOMAIN jobObjs :
    jobObjs[o].status = "completed"
      => /\ jobObjs[o].currentIndex = Len(jobObjs[o].tracks)
         /\ Len(jobObjs[o].processedTracks) = Len(jobObjs[o].tracks)

\* C4: at most one processJobInBackground loop is alive per job.
C4_SingleLoopPerJob ==
  \A o \in DOMAIN jobObjs : Cardinality(LiveLoopsOf(o)) <= 1

\* C8: a searchTrackOnYouTube call made after a call for the same pair
\* (case-insensitively) returned no match is answered from failedSearchCache,
\* with bestVideo = null and no query to the backend; the cache never shrinks.
CallsAfterNoMatchAreCached ==
  \A l \in DOMAIN loops :
    (loops[l].pc = "search" /\ loops[l].call.afterNoMatch)
      => loops[l].call.state = "cached"

C8_FailedSearchShortCircuit ==
  /\ CallsAfterNoMatchAreCached
  /\ [][failedSearchCache \subseteq failedSearchCache' /\ CallsAfterNoMatchAreCached']_vars

\* a later track, spelled differently from the one that failed, is answered
\* from the cache
C8_Witness ==
  \E l \in DOMAIN loops :
    /\ loops[l].pc = "search" /\ loops[l].attempt = 1
    /\ loops[l].call.afterNoMatch /\ loops[l].call.state = "cached"
    /\ \E i \in 1..Len(jobObjs[loops[l].job].processedTracks) :
         /\ jobObjs[loops[l].job].processedTracks[i].artist # loops[l].track.artist
         /\ PairOf(jobObjs[loops[l].job].processedTracks[i].artist,
                   jobObjs[loops[l].job].processedTracks[i].name)
              = PairOf(loops[l].track.artist, loops[l].track.name)

\* C9: a job that is never paused or deleted eventually reaches 'completed',
\* whatever the backend does with its queries.
C9_EventuallyCompleted ==
  (jobObjs # << >>) ~> (jobObjs # << >> /\ jobObjs[1].status = "completed")

\* a job completed although the backend never answered one of its queries
C9_Witness ==
  \E o \in DOMAIN jobObjs :
    /\ jobObjs[o].status = "completed"
    /\ Len(jobObjs[o].tracks) > 0
    /\ Len(jobObjs[o].processedTracks) = Len(jobObjs[o].tracks)
    /\ \E q \in DOMAIN searchBackend : searchBackend[q] = "hang"

(* ===================== batch processors: claims ======================= *)
\* entry j of a result list is the entry of track j
Aligned(results, tracks) ==
  \A j \in 1..Len(results) :
    /\ j <= Len(tracks)
    /\ results[j].name = tracks[j].name
    /\ results[j].artist = tracks[j].artist

\* an entry without a video
NotFoundEntry(e) == e.youtubeVideoId = NoVideo

\* C5: the accumulated result list of searchForYouTubeVideos and of
\* processFast is in track order at every moment: result j carries the name
\* and artist of track j, whatever order the searches of a batch end in.
C5_ResultsInTrackOrder ==
  /\ Aligned(yt.results, yt.tracks)
  /\ Aligned(fast.acc, fast.tracks)
  /\ (fast.status = "completed" => fast.results = fast.acc)

\* C6: once the backend has failed every query of maxConsecutiveFailures
\* batches in a row, no further batch is searched, and the call returns one
\* result per track, the tracks after those batches not found with an error.
C6_StopsAfterFailingBatches ==
  /\ (yt.pc \in {"batchSearch", "batchDelay", "salvage"}
        => yt.failStreak < maxConsecutiveFailures)
  /\ ((yt.pc = "returned" /\ yt.failStreak >= maxConsecutiveFailures)
        => /\ Len(yt.results) = Len(yt.tracks)
           /\ \A j \in (yt.processedCount + 1)..Len(yt.tracks) :
                NotFoundEntry(yt.results[j]) /\ yt.results[j].error # "none")

\* some entry of the list records the track as not found
RecordedNotFound(results, track) ==
  \E m \in DOMAIN results :
    /\ NotFoundEntry(results[m])
    /\ results[m].name = track.name
    /\ results[m].artist = track.artist

\* C7: a call that stopped on the global timeout returns one entry per
\* track, the tracks of the batches it did not start recorded as not found.
C7_GlobalTimeoutMarksRemainder ==
  (yt.pc = "returned" /\ yt.globalTimeout)
    => /\ Len(yt.results) = Len(yt.tracks)
       /\ \A j \in (yt.processedCount + 1)..Len(yt.tracks) :
            RecordedNotFound(yt.results, yt.tracks[j])

\* C10: fastSearch never throws into its mapper, a completed fast job has
\* exactly one entry per track, in track order, and a fast job is 'failed'
\* only when fetchSpotifyPlaylist threw.
C10_FastJobSurvivesSearchFailures ==
  /\ \A k \in DOMAIN fast.slots :
       fast.slots[k].state = "done" => fast.slots[k].result.status \in {"Found", "Not found"}
  /\ \A j \in DOMAIN fast.acc : fast.acc[j].status \in {"Found", "Not found"}
  /\ fast.status = "completed"
       => /\ Len(fast.results) = Len(fast.tracks)
          /\ Aligned(fast.results, fast.tracks)
  /\ fast.status = "failed" => (fast.fetchFailed /\ fast.tracks = << >>)

\* a fast job completed although one track's search threw and another's
\* never answered
C10_Witness ==
  /\ fast.status = "completed"
  /\ Len(fast.results) = Len(fast.tracks)
  /\ \E j1, j2 \in DOMAIN fast.tracks :
       LET q1 == SearchQuery(fast.tracks[j1].artist, fast.tracks[j1].name)
           q2 == SearchQuery(fast.tracks[j2].artist, fast.tracks[j2].name)
       IN /\ q1 \in DOMAIN searchBackend /\ searchBackend[q1] = "hang"
          /\ q2 \in DOMAIN searchBackend /\ searchBackend[q2] = "throw"
          /\ fast.results[j1].status = "Not found"
          /\ fast.results[j2].status = "Not found"

(* ========================= job registry: claims ======================= *)
\* C11: any two startProcessing calls return distinct job ids, also for the
\* same playlistId within the same millisecond, so that every job created
\* stays registered under its own id while nothing is deleted.
C11_DistinctJobIds ==
  /\ \A a, b \in DOMAIN jobObjs : a # b => jobObjs[a].id # jobObjs[b].id
  /\ \A o \in DOMAIN jobObjs :
       jobObjs[o].id \in DOMAIN processingJobs /\ processingJobs[jobObjs[o].id] = o

\* two jobs were started and the Map holds one record: the second replaced
\* the first
C11_SameIdReplaces ==
  /\ Len(jobObjs) = 2
  /\ jobObjs[1].id = jobObjs[2].id
  /\ processingJobs[jobObjs[1].id] = 2

\* C12: when startProcessing returns, the new job is registered under the
\* returned id and getJobStatus shows status 'processing', currentIndex 0,
\* no processedTracks and processed = found = failed = 0, for every track
\* list, the empty one included.
C12_FreshJobAtReturn ==
  [][Len(jobObjs') = Len(jobObjs) + 1 =>
       LET job == jobObjs'[Len(jobObjs')] IN
         /\ job.id \in DOMAIN processingJobs'
         /\ processingJobs'[job.id] = Len(jobObjs')
         /\ job.status = "processing"
         /\ job.currentIndex = 0
         /\ job.processedTracks = << >>
         /\ job.stats.processed = 0 /\ job.stats.found = 0 /\ job.stats.failed = 0]_vars

\* a job over the empty track list is 'completed' without any step of a
\* loop having been taken after startProcessing
C12_EmptyListCompletedAtOnce ==
  /\ Len(jobObjs) = 1
  /\ jobObjs[1].tracks = << >>
  /\ jobObjs[1].status = "completed"

\* C13: pauseJob returns true only for a registered job whose status is
\* 'processing', resumeJob only for a registered job whose status is
\* 'paused'; a call that returns false (unknown or deleted id included)
\* changes no job and starts no loop; getJobStatus of an id that is not
\* registered is null.
C13_ControlCallsGuarded ==
  /\ [][\A id \in JobIds :
          /\ pauseJob(id) =>
               /\ returned' = "true"
                    <=> (id \in DOMAIN processingJobs /\ JobOf(id).status = "processing")
               /\ returned' = "false" => UNCHANGED <<jobObjs, processingJobs, loops>>
          /\ resumeJob(id) =>
               /\ returned' = "true"
                    <=> (id \in DOMAIN processingJobs /\ JobOf(id).status = "paused")
               /\ returned' = "false" => UNCHANGED <<jobObjs, processingJobs, loops>>]_vars
  /\ [](\A id \in JobIds :
          /\ id \notin DOMAIN processingJobs => getJobStatus(id) = << >>
          /\ id \in DOMAIN processingJobs => getJobStatus(id) = <<jobObjs[processingJobs[id]]>>)

\* a job was started, paused and deleted with its loop still alive, and the
\* next control call returned false
C13_Witness ==
  /\ returned = "false"
  /\ Len(jobObjs) = 1
  /\ processingJobs = EmptyMap
  /\ jobObjs[1].status = "paused"
  /\ loops # << >>

\* the invocations of processJobInBackground for job o that are inside
\* processTrackWithRetries, in a list of invocations
Searching(ls, o) ==
  { l \in DOMAIN ls : ls[l].job = o /\ ls[l].pc \in {"search", "retryWait"} }

\* C14: pausing does not cancel the search in flight.  While a job is
\* 'paused', a step ends at most one of its searches, the search that ends
\* appends exactly one entry, for its own track, and otherwise nothing is
\* appended; as long as the status stays 'paused' no search is started, and
\* the searches that go on are retries for tracks already being searched.
C14_PausedSearchFinishes ==
  [][\A o \in DOMAIN jobObjs :
       jobObjs[o].status = "paused" =>
         LET before == Searching(loops, o)
             after == Searching(loops', o)
             done == jobObjs[o].processedTracks
             done2 == jobObjs'[o].processedTracks
         IN /\ Cardinality(after) >= Cardinality(before) - 1
            /\ Cardinality(after) = Cardinality(before) - 1
                 => /\ Len(done2) = Len(done) + 1
                    /\ SubSeq(done2, 1, Len(done)) = done
                    /\ \E l \in before :
                         /\ done2[Len(done2)].name = loops[l].track.name
                         /\ done2[Len(done2)].artist = loops[l].track.artist
            /\ Cardinality(after) >= Cardinality(before) => done2 = done
            /\ jobObjs'[o].status = "paused"
                 => /\ Cardinality(after) <= Cardinality(before)
                    /\ \A k \in after : \E l \in before : loops'[k].track = loops[l].track]_vars

\* a paused job of two tracks: the search of the first track has ended and
\* is recorded, its loop sleeps, and nothing searches the second track
C14_Witness ==
  /\ Len(jobObjs) = 1
  /\ jobObjs[1].status = "paused"
  /\ Len(jobObjs[1].tracks) = 2
  /\ Len(jobObjs[1].processedTracks) = 1
  /\ Searching(loops, 1) = {}
  /\ \E l \in DOMAIN loops : loops[l].pc = "delay"

(* ========================== responses: claims ========================= *)
\* the video ids of the entries that matched, in result order
MatchedIds(entries) ==
  SelectSeq(VideoIdsOf(entries), LAMBDA id : id # NoVideo)

\* C15: a watch_videos URL of a response joins at most 50 of the matched
\* video ids, in result order and separated by commas, and the track list of
\* the response holds every matched id, also when more than 50 matched.
C15_UrlJoinsAtMostFifty ==
  reply.route # "none" =>
    /\ \A j \in 1..reply.n :
         ResultEntry(j, reply.period, reply.phase, "found", "not_found").youtubeVideoId # NoVideo
           => \E i \in DOMAIN reply.tracks : reply.tracks[i].youtubeVideoId = <<"v", j>>
    /\ (reply.youtubePlaylistUrl # << >> /\ reply.youtubePlaylistUrl[1] = WatchVideosPrefix)
         => \E k \in 1..WATCH_VIDEOS_LIMIT :
              /\ k <= Len(MatchedIds(reply.tracks))
              /\ reply.youtubePlaylistUrl =
                   <<WatchVideosPrefix>> \o Join(SubSeq(MatchedIds(reply.tracks), 1, k), ",")

\* the job-results route answered for a job with 51 matched tracks: its
\* watch_videos URL joins all 51 ids
C15_JobResultsJoinsAll ==
  /\ reply.route = "job-results"
  /\ Len(MatchedIds(reply.tracks)) = WATCH_VIDEOS_LIMIT + 1
  /\ reply.youtubePlaylistUrl = <<WatchVideosPrefix>> \o Join(MatchedIds(reply.tracks), ",")

\* C16: when convertPlaylist returns, stats.total = stats.found +
\* stats.failed = results.length, stats.found counts the results with a
\* video id, and results holds one entry per converted track, whatever
\* maxTracks was.
C16_ConvertStatsAddUp ==
  conv.pc = "returned" =>
    /\ conv.stats.total = conv.stats.found + conv.stats.failed
    /\ conv.stats.total = Len(conv.results)
    /\ conv.stats.found = Len(MatchedIds(conv.results))
    /\ Len(conv.results) = Min(conv.numToProcess, Len(conv.tracks))
    /\ \A j \in DOMAIN conv.results :
         conv.results[j].name = conv.tracks[j].name /\ conv.results[j].artist = conv.tracks[j].artist

\* convertPlaylist returned for maxTracks beyond the list: stats.total is
\* maxTracks, the results are the tracks there are
C16_TotalBeyondResults ==
  /\ conv.pc = "returned"
  /\ conv.numToProcess > Len(conv.tracks)
  /\ conv.stats.total = conv.numToProcess
  /\ Len(conv.results) = Len(conv.tracks)

(* ====================== background job: counters ====================== *)
\* C17: in every state of a background job, whatever pauseJob and resumeJob
\* calls were interleaved, stats.processed = stats.found + stats.failed =
\* processedTracks.length = currentIndex, and stats.total = tracks.length.
C17_CountersAgree ==
  \A o \in DOMAIN jobObjs :
    LET job == jobObjs[o] IN
      /\ job.stats.processed = job.stats.found + job.stats.failed
      /\ job.stats.processed = Len(job.processedTracks)
      /\ job.stats.processed = job.currentIndex
      /\ job.stats.found = Len(SelectSeq(job.processedTracks, LAMBDA t : t.status = "Found"))
      /\ job.stats.total = Len(job.tracks)

\* a job that was paused and resumed has two loops alive, one result found
\* and one not found
C17_Witness ==
  /\ Len(jobObjs) = 1
  /\ Cardinality(LiveLoopsOf(1)) = 2
  /\ jobObjs[1].stats.found = 1
  /\ jobObjs[1].stats.failed = 1

\* C18: a job never holds more results than tracks: processedTracks.length
\* and currentIndex stay at or below tracks.length, and processedTracks
\* changes only by an entry appended at its end.
C18_NeverBeyondTracks ==
  /\ [](\A o \in DOMAIN jobObjs :
          /\ Len(jobObjs[o].processedTracks) <= Len(jobObjs[o].tracks)
          /\ jobObjs[o].currentIndex <= Len(jobObjs[o].tracks))
  /\ [][\A o \in DOMAIN jobObjs :
          \/ jobObjs'[o].processedTracks = jobObjs[o].processedTracks
          \/ /\ Len(jobObjs'[o].processedTracks) = Len(jobObjs[o].processedTracks) + 1
             /\ SubSeq(jobObjs'[o].processedTracks, 1, Len(jobObjs[o].processedTracks))
                  = jobObjs[o].processedTracks]_vars

\* a job of one track holds two results after a pause and a resume: each of
\* its two loops appended one
C18_TwoResultsForOneTrack ==
  /\ Len(jobObjs) = 1
  /\ Len(jobObjs[1].tracks) = 1
  /\ Len(jobObjs[1].processedTracks) = 2
  /\ jobObjs[1].currentIndex = 2

(* ========================== fast job: counters ======================== *)
\* C19: whenever getJobStatus can look at a fast job, a batch in flight
\* included, stats.found + stats.failed = stats.processed, and
\* stats.processed is the number of tracks whose results are accumulated.
C19_FastCountersAgree ==
  /\ fast.stats.found + fast.stats.failed = fast.stats.processed
  /\ fast.stats.processed = Len(fast.acc)

\* one search of a batch of two has ended and is counted as found or
\* failed while the batch is in flight: processed still is 0
C19_CountedBeforeProcessed ==
  /\ fast.pc = "batch"
  /\ fast.stats.found + fast.stats.failed = 1
  /\ fast.stats.processed = 0
  /\ Len(fast.acc) = 0

(* ======================= conversion run: salvage ====================== *)
\* the last n entries of results carry the tracks of the batch, in order,
\* each written by the salvage loop
SalvagedBatch(results, batch) ==
  /\ Len(results) >= Len(batch)
  /\ \A k \in DOMAIN batch :
       LET e == results[Len(results) - Len(batch) + k] IN
         /\ e.name = batch[k].name
         /\ e.artist = batch[k].artist
         /\ e.status \in {"Found via salvage", "Search failed"}

\* C20: a batch that ran into its timeout contributes one salvage entry per
\* track, in track order, and nothing of the abandoned batch run; after
\* every batch results.length = processedCount.
C20_SalvageOneEntryPerTrack ==
  /\ yt.pc = "failDelay" => SalvagedBatch(yt.results, Batch(yt))
  /\ yt.pc \in {"okDelay", "failDelay"} => Len(yt.results) = yt.processedCount

\* between two batches the run holds more results than processed tracks,
\* without any batch having timed out
C20_MoreResultsThanProcessed ==
  /\ yt.pc = "okDelay"
  /\ yt.consecutiveFailures = 0
  /\ Len(yt.results) > yt.processedCount

(* ================== conversion run: failure counter =================== *)
\* the batches at the end of the log that hit the batch timeout
RECURSIVE TrailingTimeouts(_)
TrailingTimeouts(log) ==
  IF log = << >> \/ ~log[Len(log)] THEN 0
  ELSE 1 + TrailingTimeouts(SubSeq(log, 1, Len(log) - 1))

\* C21: consecutiveFailures is the number of batches in a row, up to the
\* latest one, that hit the batch timeout: 0 after a batch that ended in
\* time, one more after each batch that timed out.  The emergency exit is
\* taken exactly when that number reaches three.
C21_CounterIsTimeoutStreak ==
  /\ yt.consecutiveFailures = TrailingTimeouts(yt.batchLog)
  /\ yt.emergency => TrailingTimeouts(yt.batchLog) = maxConsecutiveFailures
  /\ (TrailingTimeouts(yt.batchLog) >= maxConsecutiveFailures
        /\ yt.pc \notin {"salvage"}) => (yt.emergency /\ yt.pc = "returned")

\* the emergency exit after a batch in time followed by three batches that
\* timed out
C21_Witness ==
  /\ yt.emergency
  /\ yt.batchLog = <<FALSE, TRUE, TRUE, TRUE>>

(* ====================== simple converter: claims ====================== *)
\* C22: convertPlaylist eventually returns, for every track list and every
\* behaviour of the search backend, one that never answers included.
C22_ConvertEventuallyReturns ==
  (conv.pc # "idle") ~> (conv.pc = "returned")

\* the retry pass awaits a search that is never answered
C22_RetryNeverAnswered ==
  /\ conv.pc = "retryHung"
  /\ conv.retry = 1
  /\ Len(conv.failedTracks) >= 1

(* ------------------------ searchSingleTrack: claims ------------------- *)
\* the answer to a query holds a video with an id and a title
Matched(entry) == entry.kind = "results" /\ FirstUsable(entry.results) # << >>

\* C23: searchSingleTrack sends its queries in list order; it returns 'found'
\* exactly when a query was answered with a video that has an id and a title,
\* with the first usable video of the first such answer and without sending a
\* later query; a query that throws or times out is followed by the next
\* query; 'failed' is returned only after every query was sent and none matched
C23_FirstMatchingQueryWins ==
  /\ \A i \in 1..Len(single.issued) : single.issued[i] = i
  /\ Len(single.issued) <= MaxQueries
  /\ single.pc = "query" =>
       /\ Len(single.issued) = Len(single.log) + 1
       /\ \A i \in 1..Len(single.log) : ~Matched(single.log[i])
  /\ single.pc = "returned" =>
       /\ Len(single.issued) = Len(single.log)
       /\ single.result.status \in {"found", "failed"}
       /\ single.result.status = "found" <=>
            \E i \in 1..Len(single.log) : Matched(single.log[i])
       /\ single.result.status = "found" =>
            /\ \A i \in 1..(Len(single.log) - 1) : ~Matched(single.log[i])
            /\ single.result.youtubeVideoId =
                 VideoIdOf(FirstUsable(single.log[Len(single.log)].results)[1])
       /\ single.result.status = "failed" => Len(single.issued) = MaxQueries

\* a throw and a timeout were followed by a query whose second video matched
C23_Witness ==
  /\ single.pc = "returned"
  /\ single.result.status = "found"
  /\ Len(single.log) = 3
  /\ single.log[1].kind = "throw"
  /\ single.log[2].kind = "timeout"
  /\ Len(single.log[3].results) = 2

(* --------------------------- ranker: claims --------------------------- *)
\* the positions of the results whose title holds both artist and song
Relevant(r) ==
  { i \in 1..Len(r.searchResults) :
      /\ hasArtist(r.searchResults[i], r.track.artist)
      /\ hasSong(r.searchResults[i], r.track.name) }

\* C24: among the results that pass the relevance filter, the ranker returns
\* an official one whenever there is one, whatever its position, and among
\* results of the same official status the earliest in search-result order
C24_OfficialBeforeOrder ==
  (ranking.pc = "returned" /\ Relevant(ranking) # {}) =>
    LET rs == ranking.searchResults
        rel == Relevant(ranking)
        off == { i \in rel : isOfficial(rs[i], ranking.track.artist) }
        pool == IF off # {} THEN off ELSE rel
    IN ranking.bestVideo[1].videoId =
         rs[CHOOSE i \in pool : \A j \in pool : i <= j].videoId

\* a relevant official video stands behind a relevant one that is not
\* official, and the one that is not official is returned
C24_OfficialPassedOver ==
  /\ ranking.pc = "returned"
  /\ Len(ranking.searchResults) = 2
  /\ Relevant(ranking) = {1, 2}
  /\ ~isOfficial(ranking.searchResults[1], ranking.track.artist)
  /\ isOfficial(ranking.searchResults[2], ranking.track.artist)
  /\ ranking.bestVideo[1].videoId = ranking.searchResults[1].videoId
  /\ ~ranking.bestVideo[1].isOfficial

(* --------------------- chained /convert-playlist: claims -------------- *)
\* the number of entries of a response that carry the playlist's track j
ResultsFor(response, j) ==
  Cardinality({ n \in DOMAIN response.tracks :
                  /\ response.tracks[n].name = ChainPlaylist[j].name
                  /\ response.tracks[n].artist = ChainPlaylist[j].artist })

RECURSIVE ResultsInChain(_, _)
ResultsInChain(responses, j) ==
  IF responses = << >> THEN 0
  ELSE ResultsFor(Head(responses), j) + ResultsInChain(Tail(responses), j)

\* C25: the calls chained by nextResumePoint work through consecutive windows
\* from 0; each response holds exactly one result for every index of its
\* window [resumeFromTrack, nextResumePoint), which lies within the playlist
\* and is not empty while tracks remain; when the chain has ended every index
\* of the playlist has exactly one result
C25_WindowsCoverEveryIndexOnce ==
  /\ \A k \in DOMAIN chain.responses :
       LET r == chain.responses[k]
           nextResumePoint == r.resumeFromTrack + Len(r.tracks)
       IN /\ r.resumeFromTrack =
               IF k = 1 THEN 0
               ELSE chain.responses[k - 1].resumeFromTrack
                      + Len(chain.responses[k - 1].tracks)
          /\ nextResumePoint <= Len(ChainPlaylist)
          /\ \A j \in (r.resumeFromTrack + 1)..Min(nextResumePoint, Len(ChainPlaylist)) :
               ResultsFor(r, j) = 1
          /\ r.resumeFromTrack < Len(ChainPlaylist) => Len(r.tracks) >= 1
  /\ chain.pc = "ended" =>
       \A j \in DOMAIN ChainPlaylist : ResultsInChain(chain.responses, j) = 1

\* the chain has ended and no response holds a result for the last track:
\* the first window returned more entries than it had tracks
C25_TrackNeverConverted ==
  /\ chain.pc = "ended"
  /\ Len(chain.responses[1].tracks) > maxTracksPerConversion
  /\ ResultsInChain(chain.responses, Len(ChainPlaylist)) = 0

(* --------------------- processTrackWithRetries: claims ---------------- *)
\* C26: every attempt of processTrackWithRetries sends a search to the
\* backend, also the attempt that follows one that ended without a match; so
\* 'No results found after 3 attempts' stands for three searches
C26_EveryAttemptSearches ==
  \A l \in DOMAIN loops :
    loops[l].pc = "search" => loops[l].call.state = "inflight"

\* the second attempt for a track, made after the first one found no match,
\* is answered from failedSearchCache without a search
C26_SecondAttemptFromCache ==
  \E l \in DOMAIN loops :
    /\ loops[l].pc = "search"
    /\ loops[l].attempt = 2
    /\ loops[l].call.state = "cached"
    /\ Len(jobObjs[loops[l].job].processedTracks) = 0
    /\ DOMAIN searchBackend = {SearchQuery(loops[l].track.artist, loops[l].track.name)}

(* ------------------------- retry pass: claims ------------------------- *)
\* C27: when convertPlaylist has returned, every track whose retry returned
\* a video is 'found' at the index that track has in results, the retry wrote
\* to that index, and it replaced no entry that was 'found' already
C27_RetryWritesOwnIndex ==
  \A k \in DOMAIN conv.retryLog :
    conv.retryLog[k].found =>
      /\ conv.retryLog[k].originalIndex = conv.failedAt[k]
      /\ ~conv.retryLog[k].wasFound
      /\ conv.pc = "returned" => conv.results[conv.failedAt[k]].status = "found"

\* the same track twice, both failed in the first pass and both found by
\* the retry: the second retry wrote over the first, the second index is
\* still 'failed'
C27_DuplicateStaysFailed ==
  /\ conv.pc = "returned"
  /\ conv.failedAt = <<1, 2>>
  /\ conv.retryLog[1].found /\ conv.retryLog[2].found
  /\ conv.retryLog[2].originalIndex = 1
  /\ conv.retryLog[2].wasFound
  /\ conv.results[2].status = "failed"

(* ------------------------ abandoned batch: claims --------------------- *)
\* the abandoned batch run and the run of searchForYouTubeVideos await a
\* search for the same track
SearchedTwice ==
  \E run \in orphanBatches :
    /\ yt.pc \in {"batchSearch", "salvage"}
    /\ yt.call.state = "inflight"
    /\ Head(run) = YTTrack(yt)

\* C28: no track has two searchTrackOnYouTube calls in flight in one run of
\* searchForYouTubeVideos; a batch run abandoned by the batch timer sends no
\* further search; failedSearchCache is written only when the call that
\* searchForYouTubeVideos awaits returns
C28_AbandonedBatchIsSilent ==
  /\ ~SearchedTwice
  /\ [][/\ ~SearchedTwice'
        /\ \A run \in orphanBatches' \ orphanBatches :
             yt.pc = "batchSearch" /\ yt'.pc = "salvage"
        /\ failedSearchCache' # failedSearchCache => yt' # yt]_vars

\* the salvage loop and the batch run abandoned by the timer both await a
\* search for the second track of the batch
C28_SalvageAndAbandonedRunCollide ==
  /\ yt.pc = "salvage"
  /\ yt.k = 2
  /\ yt.call.state = "inflight"
  /\ \E run \in orphanBatches : Len(run) = 1 /\ Head(run) = Batch(yt)[2]

(* ---------------------------- deleteJob: claims ----------------------- *)
\* the job object is no longer in processingJobs
Deleted(o) == \A id \in DOMAIN processingJobs : processingJobs[id] # o

\* C29: once a 'processing' job is deleted, its loop starts no search for a
\* further track, and from the loop's next boundary (the end of the 300 ms
\* pause) on the deleted record is not written any more
C29_DeletedJobStops ==
  [][\A o \in DOMAIN jobObjs :
       (Deleted(o) /\ jobObjs[o].status = "processing") =>
         /\ \A n \in DOMAIN loops' :
              (loops'[n].job = o /\ loops'[n].pc = "search" /\ loops'[n].attempt = 1)
                => \E l \in DOMAIN loops : loops[l] = loops'[n]
         /\ (\E l \in DOMAIN loops : loops[l].job = o /\ loops[l].pc = "delay")
              => jobObjs'[o] = jobObjs[o]]_vars

\* the loop of a deleted job has gone on to the second track and awaits its
\* first search
C29_DeletedJobStillSearching ==
  \E l \in DOMAIN loops :
    /\ Deleted(loops[l].job)
    /\ jobObjs[loops[l].job].status = "processing"
    /\ jobObjs[loops[l].job].currentIndex = 1
    /\ Len(jobObjs[loops[l].job].processedTracks) = 1
    /\ loops[l].pc = "search"
    /\ loops[l].attempt = 1

(* --------------------------- completed: claims ------------------------ *)
\* C30: a job that is 'completed' keeps that status, and its
\* processedTracks, currentIndex and stats are not written again
C30_CompletedIsTerminal ==
  [][\A o \in DOMAIN jobObjs :
       jobObjs[o].status = "completed" =>
         /\ jobObjs'[o].status = "completed"
         /\ jobObjs'[o].processedTracks = jobObjs[o].processedTracks
         /\ jobObjs'[o].currentIndex = jobObjs[o].currentIndex
         /\ jobObjs'[o].stats = jobObjs[o].stats]_vars

\* a 'completed' job has more entries in processedTracks than tracks: a
\* second loop, started by resumeJob, recorded a track after the first loop
\* had completed the job
C30_RecordedAfterCompleted ==
  \E o \in DOMAIN jobObjs :
    /\ jobObjs[o].status = "completed"
    /\ LiveLoopsOf(o) = {}
    /\ Len(jobObjs[o].processedTracks) > Len(jobObjs[o].tracks)
    /\ jobObjs[o].currentIndex > Len(jobObjs[o].tracks)

====
